---- MODULE Spec2Model ----
(***************************************************************************)
(* Model of node-banana's two API routes:                                  *)
(*   src/app/api/models/[modelId]/route.ts  (schema lookup, schemaCache)   *)
(*   src/app/api/generate/route.ts          (generation orchestrator and   *)
(*                                           the three provider adapters)  *)
(* Time is in milliseconds, as Date.now() reports it.                      *)
(***************************************************************************)
EXTENDS Integers, Sequences, FiniteSets, TLC

VARIABLES
    now,          \* Date.now()
    schemaCache,  \* models/[modelId]/route.ts:26, keyed by `${provider}:${modelId}`
    lk,           \* the GET requests in flight, one record per request slot
    lkResp,       \* the response each GET request produced
    firstFetch,   \* history: per key, the earliest stored fetch of the current TTL window
    gReq,         \* the POST /api/generate request being served
    gPc,          \* where that request's handler is suspended
    gIn,          \* the GenerationInput handed to the adapter
    gAd,          \* the adapter's locals (payload, currentPrediction, startTime, mediaUrl)
    gCalls,       \* the provider calls issued so far, each with the reply it got
    gResp,        \* the response of POST
    job,          \* the provider's prediction: its status, and when it became terminal
    mProps,       \* InputMapper: the schema document handed to the mapper
    mMap,         \* InputMapper: the paramMap it returned
    mBy,          \* InputMapper: which of the two copies of the mapper produced mMap
    mdIn,         \* MediaNormalizer: the output URL and the reply to its fetch
    mdR,          \* MediaNormalizer: the outputs generateWithReplicate returns for mdIn
    mdF,          \* MediaNormalizer: the outputs generateWithFal returns for mdIn
    exIn,         \* SchemaExtractor: the input schema and the components table
    exOut,        \* SchemaExtractor: the parameters and inputs extracted from exIn
    rtIn,         \* media round trip: the fetched bytes and the content-type header
    rtUri,        \* media round trip: the data URI the adapter built from rtIn
    rtOut         \* media round trip: the buffer the save route decoded from rtUri

lookupVars == <<schemaCache, lk, lkResp, firstFetch>>
genVars == <<gReq, gPc, gIn, gAd, gCalls, gResp, job>>
\* the variables of the specifications that exercise a pure function
mapperVars == <<mProps, mMap, mBy>>
mediaVars == <<mdIn, mdR, mdF>>
extractVars == <<exIn, exOut>>
codecVars == <<rtIn, rtUri, rtOut>>
pureVars == <<mapperVars, mediaVars, extractVars, codecVars>>
vars == <<now, schemaCache, lk, lkResp, firstFetch, gReq, gPc, gIn, gAd, gCalls, gResp, job,
          mProps, mMap, mBy, mdIn, mdR, mdF, exIn, exOut, rtIn, rtUri, rtOut>>

(***************************************************************************)
(* Bounds of the model                                                     *)
(***************************************************************************)
MaxLookups == 2         \* concurrent GET requests
TickMs == 300000        \* granularity of the clock in the lookup model
MaxNow == 700000        \* the clock stops here
MaxPolls == 3           \* status fetches of one generation request
MaxProps == 3           \* declared properties of a schema handed to the InputMapper
MaxSchemaProps == 3     \* declared properties of a schema handed to the SchemaExtractor
MaxExtractions == 2     \* times the SchemaExtractor is applied to one schema
MaxBytes == 3           \* bytes of a fetched medium in the round trip

Null == "<null>"        \* JavaScript null / undefined / absent

(***************************************************************************)
(* String helpers (String.prototype.includes / startsWith)                 *)
(***************************************************************************)
Includes(s, t) ==
    \E i \in 1..(Len(s) - Len(t) + 1) : SubSeq(s, i, i + Len(t) - 1) = t

StartsWith(s, t) ==
    Len(s) >= Len(t) /\ SubSeq(s, 1, Len(t)) = t

\* String.prototype.toLowerCase, letter by letter
UpperCase == "ABCDEFGHIJKLMNOPQRSTUVWXYZ"
LowerCase == "abcdefghijklmnopqrstuvwxyz"
UpperLetters == {SubSeq(UpperCase, i, i) : i \in 1..26}
LowerChar(c) ==
    IF c \in UpperLetters
    THEN LET i == CHOOSE j \in 1..26 : SubSeq(UpperCase, j, j) = c IN SubSeq(LowerCase, i, i)
    ELSE c

RECURSIVE toLowerCase(_)
toLowerCase(s) ==
    IF Len(s) = 0 THEN ""
    ELSE LowerChar(SubSeq(s, 1, 1)) \o toLowerCase(SubSeq(s, 2, Len(s)))

SeqToSet(q) == {q[i] : i \in 1..Len(q)}

\* JavaScript truthiness of a string-or-null value
Truthy(v) == v # Null /\ v # ""

(***************************************************************************)
(* SchemaExtractor: models/[modelId]/route.ts:29-223 and 347-409           *)
(***************************************************************************)
IMAGE_INPUT_PATTERNS ==
    <<"image_url", "image", "first_frame", "last_frame", "tail_image_url", "start_image",
      "end_image", "reference_image", "init_image", "mask_image", "control_image">>

TEXT_INPUT_NAMES == <<"prompt", "negative_prompt">>

EXCLUDED_PARAMS ==
    {"webhook", "webhook_events_filter", "sync_mode", "disable_safety_checker", "go_fast",
     "enable_safety_checker", "output_format", "output_quality", "request_id"}

PriorityParamsSeedOnly == {"seed"}
PRIORITY_PARAMS ==
    {"seed", "num_inference_steps", "inference_steps", "steps", "guidance_scale", "guidance",
     "negative_prompt", "width", "height", "num_outputs", "num_images", "scheduler",
     "strength", "cfg_scale", "lora_scale"}

EndsWith(s, t) ==
    Len(s) >= Len(t) /\ SubSeq(s, Len(s) - Len(t) + 1, Len(s)) = t

LowerLetters == {SubSeq(LowerCase, i, i) : i \in 1..26}
Digits == {SubSeq("0123456789", i, i) : i \in 1..10}
UpperChar(c) ==
    IF c \in LowerLetters
    THEN LET i == CHOOSE j \in 1..26 : SubSeq(LowerCase, j, j) = c IN SubSeq(UpperCase, i, i)
    ELSE c

\* \w of a regular expression
IsWordChar(c) == c \in LowerLetters \cup UpperLetters \cup Digits \cup {"_"}

\* .replace(/_/g, " ")
RECURSIVE UnderscoresToSpaces(_)
UnderscoresToSpaces(s) ==
    IF Len(s) = 0 THEN ""
    ELSE (IF SubSeq(s, 1, 1) = "_" THEN " " ELSE SubSeq(s, 1, 1))
         \o UnderscoresToSpaces(SubSeq(s, 2, Len(s)))

\* .replace(/\b\w/g, c => c.toUpperCase()), from position i on
RECURSIVE CapitalizeWords(_, _)
CapitalizeWords(s, i) ==
    IF i > Len(s) THEN ""
    ELSE LET c == SubSeq(s, i, i)
             atBoundary == IsWordChar(c) /\ (i = 1 \/ ~IsWordChar(SubSeq(s, i - 1, i - 1)))
         IN  (IF atBoundary THEN UpperChar(c) ELSE c) \o CapitalizeWords(s, i + 1)

\* route.ts:96-101
toLabel(name) ==
    LET noUrl == IF EndsWith(name, "_url") THEN SubSeq(name, 1, Len(name) - 4) ELSE name
    IN  CapitalizeWords(UnderscoresToSpaces(noUrl), 1)

\* route.ts:106-110
isImageInput(name) ==
    \E i \in 1..Len(IMAGE_INPUT_PATTERNS) :
        \/ name = IMAGE_INPUT_PATTERNS[i]
        \/ EndsWith(name, "_" \o IMAGE_INPUT_PATTERNS[i])
        \/ Includes(name, "image")

\* route.ts:115-117
isTextInput(name) == name \in SeqToSet(TEXT_INPUT_NAMES)

\* an enum attribute: whether it is an array, and its values
NoEnum == [has |-> FALSE, values |-> <<>>]
Enum(values) == [has |-> TRUE, values |-> values]
\* a numeric attribute: whether it is a number, and its value
NoNumber == [has |-> FALSE, value |-> 0]
Number(n) == [has |-> TRUE, value |-> n]

\* a definition of components.schemas; type, default and description are Null when absent
ResolvedSchema(type, enum, default, description) ==
    [found |-> TRUE, type |-> type, enum |-> enum, default |-> default,
     description |-> description]
NotResolved ==
    [found |-> FALSE, type |-> Null, enum |-> NoEnum, default |-> Null, description |-> Null]

\* the components.schemas table of the documents tried
SchemaComponents ==
    [AspectRatio |-> ResolvedSchema("string", Enum(<<"16:9", "1:1">>), Null, "Aspect ratio"),
     Steps |-> ResolvedSchema("integer", NoEnum, "28", Null),
     Quality |-> ResolvedSchema("number", Enum(<<"low", "high">>), "high", "Quality")]

RefPrefix == "#/components/schemas/"

\* route.ts:123-134
resolveRef(ref, schemaComponents) ==
    IF ~(StartsWith(ref, RefPrefix) /\ Len(ref) > Len(RefPrefix)) THEN NotResolved
    ELSE LET schemaName == SubSeq(ref, Len(RefPrefix) + 1, Len(ref))
         IN  IF schemaName \in DOMAIN schemaComponents
             THEN schemaComponents[schemaName] ELSE NotResolved

\* the locals of convertSchemaProperty before the allOf loop
NoResolution(type) ==
    [type |-> type, enumValues |-> NoEnum, resolvedDefault |-> Null,
     resolvedDescription |-> Null]

\* route.ts:169-193: one iteration of the loop over allOf
AllOfStep(acc, item, schemaComponents) ==
    IF Truthy(item.ref)
    THEN LET resolved == resolveRef(item.ref, schemaComponents) IN
         IF ~resolved.found THEN acc
         ELSE [type |-> IF resolved.type \in {"integer", "number", "boolean"}
                        THEN resolved.type ELSE acc.type,
               enumValues |-> IF resolved.enum.has THEN resolved.enum ELSE acc.enumValues,
               resolvedDefault |->
                    IF resolved.default # Null /\ acc.resolvedDefault = Null
                    THEN resolved.default ELSE acc.resolvedDefault,
               resolvedDescription |->
                    IF Truthy(resolved.description) /\ ~Truthy(acc.resolvedDescription)
                    THEN resolved.description ELSE acc.resolvedDescription]
    ELSE IF item.enum.has THEN [acc EXCEPT !.enumValues = item.enum]
    ELSE acc

RECURSIVE AllOfLoop(_, _, _, _)
AllOfLoop(acc, allOf, i, schemaComponents) ==
    IF i > Len(allOf) THEN acc
    ELSE AllOfLoop(AllOfStep(acc, allOf[i], schemaComponents), allOf, i + 1, schemaComponents)

NoParameter ==
    [present |-> FALSE, name |-> "", type |-> "string", description |-> Null, default |-> Null,
     required |-> FALSE, minimum |-> NoNumber, maximum |-> NoNumber, enum |-> NoEnum]

ConvertedPropertyResolvedFirst(name, prop, required, hasComponents) ==
         LET r == IF prop.type \in {"integer", "number", "boolean", "array"}
                  THEN NoResolution(prop.type)
                  ELSE IF Len(prop.allOf) > 0 /\ hasComponents
                  THEN AllOfLoop(NoResolution("string"), prop.allOf, 1, SchemaComponents)
                  ELSE NoResolution("string")
         IN  [present |-> TRUE,
              name |-> name,
              type |-> r.type,
              description |-> IF Truthy(prop.description) THEN prop.description
                              ELSE r.resolvedDescription,
              default |-> IF prop.default # Null THEN prop.default ELSE r.resolvedDefault,
              required |-> name \in SeqToSet(required),
              minimum |-> prop.minimum,
              maximum |-> prop.maximum,
              enum |-> IF r.enumValues.has THEN r.enumValues ELSE prop.enum]

\* route.ts:150-222: the parameter built for a property that is not excluded;
\* hasComponents: whether schemaComponents is given
ConvertedProperty(name, prop, required, hasComponents) ==
         LET r == IF prop.type \in {"integer", "number", "boolean", "array"}
                  THEN NoResolution(prop.type)
                  ELSE IF Len(prop.allOf) > 0 /\ hasComponents
                  THEN AllOfLoop(NoResolution("string"), prop.allOf, 1, SchemaComponents)
                  ELSE NoResolution("string")
         IN  [present |-> TRUE,
              name |-> name,
              type |-> r.type,
              description |-> IF Truthy(prop.description) THEN prop.description
                              ELSE r.resolvedDescription,
              default |-> IF prop.default # Null THEN prop.default ELSE r.resolvedDefault,
              required |-> name \in SeqToSet(required),
              minimum |-> prop.minimum,
              maximum |-> prop.maximum,
              enum |-> IF prop.enum.has THEN prop.enum ELSE r.enumValues]

\* route.ts:139-223
convertSchemaPropertyUnfiltered(name, prop, required, hasComponents) ==
    ConvertedProperty(name, prop, required, hasComponents)
convertSchemaProperty(name, prop, required, hasComponents) ==
    IF name \in EXCLUDED_PARAMS THEN NoParameter
    ELSE ConvertedProperty(name, prop, required, hasComponents)

\* the collation order of the characters of property names
CollationOrder == " _-0123456789abcdefghijklmnopqrstuvwxyz"
Rank(c) ==
    IF \E i \in 1..Len(CollationOrder) : SubSeq(CollationOrder, i, i) = c
    THEN CHOOSE i \in 1..Len(CollationOrder) : SubSeq(CollationOrder, i, i) = c
    ELSE Len(CollationOrder) + 1

\* the comparison of two strings letter case aside: -1, 0 or 1
RECURSIVE ComparePrimary(_, _, _)
ComparePrimary(a, b, i) ==
    IF i > Len(a) /\ i > Len(b) THEN 0
    ELSE IF i > Len(a) THEN -1
    ELSE IF i > Len(b) THEN 1
    ELSE LET ra == Rank(LowerChar(SubSeq(a, i, i)))
             rb == Rank(LowerChar(SubSeq(b, i, i)))
         IN  IF ra < rb THEN -1 ELSE IF ra > rb THEN 1 ELSE ComparePrimary(a, b, i + 1)

\* of two strings equal letter case aside, the one with the lower-case letter at
\* the first difference comes first
RECURSIVE CompareCase(_, _, _)
CompareCase(a, b, i) ==
    IF i > Len(a) THEN 0
    ELSE IF SubSeq(a, i, i) = SubSeq(b, i, i) THEN CompareCase(a, b, i + 1)
    ELSE IF SubSeq(a, i, i) \in LowerLetters THEN -1 ELSE 1

\* String.prototype.localeCompare
localeCompare(a, b) ==
    IF ComparePrimary(a, b, 1) # 0 THEN ComparePrimary(a, b, 1) ELSE CompareCase(a, b, 1)

ParameterBeforeByName(a, b) == localeCompare(a.name, b.name) < 0
\* route.ts:391-397: the comparator of parameters.sort is negative
ParameterBefore(a, b) ==
    IF a.name \in PRIORITY_PARAMS /\ b.name \notin PRIORITY_PARAMS THEN TRUE
    ELSE IF a.name \notin PRIORITY_PARAMS /\ b.name \in PRIORITY_PARAMS THEN FALSE
    ELSE localeCompare(a.name, b.name) < 0

InputBeforeTypeFirst(a, b) ==
    IF a.type # b.type THEN a.type = "image"
    ELSE IF a.required # b.required THEN a.required
    ELSE localeCompare(a.name, b.name) < 0
\* route.ts:400-404: the comparator of inputs.sort is negative
InputBefore(a, b) ==
    IF a.required # b.required THEN a.required
    ELSE IF a.type # b.type THEN a.type = "image"
    ELSE localeCompare(a.name, b.name) < 0

ModelInput(name, type, prop, required) ==
    [name |-> name, type |-> type, required |-> name \in SeqToSet(required),
     label |-> toLabel(name), description |-> prop.description]

RECURSIVE ExtractLoopFallingThrough(_, _, _, _)
ExtractLoopFallingThrough(schema, i, parameters, inputs) ==
    IF i > Len(schema.properties) THEN [parameters |-> parameters, inputs |-> inputs]
    ELSE LET name == schema.properties[i].name
             prop == schema.properties[i].prop
             param == convertSchemaProperty(name, prop, schema.required, schema.hasComponents)
             withInput ==
                 IF isImageInput(name)
                 THEN Append(inputs, ModelInput(name, "image", prop, schema.required))
                 ELSE IF isTextInput(name)
                 THEN Append(inputs, ModelInput(name, "text", prop, schema.required))
                 ELSE inputs
         IN  ExtractLoopFallingThrough(schema, i + 1,
                 IF param.present THEN Append(parameters, param) ELSE parameters, withInput)

\* route.ts:361-388: the loop over the properties, from property i on
RECURSIVE ExtractLoop(_, _, _, _)
ExtractLoop(schema, i, parameters, inputs) ==
    IF i > Len(schema.properties) THEN [parameters |-> parameters, inputs |-> inputs]
    ELSE LET name == schema.properties[i].name
             prop == schema.properties[i].prop
             param == convertSchemaProperty(name, prop, schema.required, schema.hasComponents)
         IN  IF isImageInput(name)
             THEN ExtractLoop(schema, i + 1, parameters,
                              Append(inputs, ModelInput(name, "image", prop, schema.required)))
             ELSE IF isTextInput(name)
             THEN ExtractLoop(schema, i + 1, parameters,
                              Append(inputs, ModelInput(name, "text", prop, schema.required)))
             ELSE IF param.present
             THEN ExtractLoop(schema, i + 1, Append(parameters, param), inputs)
             ELSE ExtractLoop(schema, i + 1, parameters, inputs)

\* route.ts:347-409
extractParametersFromSchema(schema) ==
    IF ~schema.hasProperties THEN [parameters |-> <<>>, inputs |-> <<>>]
    ELSE LET collected == ExtractLoop(schema, 1, <<>>, <<>>)
         IN  [parameters |-> SortSeq(collected.parameters, ParameterBefore),
              inputs |-> SortSeq(collected.inputs, InputBefore)]

\* an allOf item: its $ref (Null when absent) and its enum
RefItem(ref) == [ref |-> ref, enum |-> NoEnum]
EnumItem(values) == [ref |-> Null, enum |-> Enum(values)]

Property(type, allOf, description, default, minimum, maximum, enum) ==
    [type |-> type, allOf |-> allOf, description |-> description, default |-> default,
     minimum |-> minimum, maximum |-> maximum, enum |-> enum]

\* a schema declaring the listed names, each with the given declaration
InputSchema(names, shape, required, hasComponents) ==
    [hasProperties |-> TRUE,
     properties |-> [i \in 1..Len(names) |-> [name |-> names[i], prop |-> shape]],
     required |-> required,
     hasComponents |-> hasComponents]

PlainShape == Property(Null, <<>>, Null, Null, NoNumber, NoNumber, NoEnum)

(***************************************************************************)
(* Schema lookup: GET /api/models/:modelId?provider=...                    *)
(***************************************************************************)
CACHE_TTL == 10 * 60 * 1000

LookupIds == 1..MaxLookups
ProviderParams == {"replicate", "fal", "gemini", Null}
RawModelIds == {"o/m", "o%2Fm"}

\* decodeURIComponent, for the escapes that occur in RawModelIds
RECURSIVE decodeURIComponent(_)
decodeURIComponent(s) ==
    IF Len(s) = 0 THEN ""
    ELSE IF Len(s) >= 3 /\ SubSeq(s, 1, 3) = "%2F"
         THEN "/" \o decodeURIComponent(SubSeq(s, 4, Len(s)))
         ELSE SubSeq(s, 1, 1) \o decodeURIComponent(SubSeq(s, 2, Len(s)))

CacheKey(provider, decodedModelId) == provider \o ":" \o decodedModelId

CacheKeys == {CacheKey(p, decodeURIComponent(m)) : p \in {"replicate", "fal"}, m \in RawModelIds}

EmptySchema == [parameters |-> <<>>, inputs |-> <<>>]

\* input schemas of the documents tried: one declaring a parameter and an
\* input, and one without properties
UsableSchema == InputSchema(<<"seed", "prompt">>, PlainShape, <<"prompt">>, TRUE)
NoPropertiesSchema ==
    [hasProperties |-> FALSE, properties |-> <<>>, required |-> <<>>, hasComponents |-> TRUE]

\* the body of a 2xx answer of the Replicate model endpoint: whether
\* latest_version.openapi_schema is there, what components.schemas.Input is
\* ("absent", "scalar" or "object"), and the Input schema
ReplicateDoc(openapi, input, schema) == [openapi |-> openapi, input |-> input, schema |-> schema]
ReplicateDocs ==
    {ReplicateDoc(FALSE, "absent", NoPropertiesSchema),
     ReplicateDoc(TRUE, "absent", NoPropertiesSchema),
     ReplicateDoc(TRUE, "scalar", NoPropertiesSchema),
     ReplicateDoc(TRUE, "object", NoPropertiesSchema),
     ReplicateDoc(TRUE, "object", UsableSchema)}

\* a path of a fal OpenAPI document: whether the JSON request body of its POST
\* operation has no schema ("none"), a $ref ("ref") or an inline schema
\* ("inline"), whether the $ref is found in components.schemas, and the schema
FalPath(kind, resolves, schema) == [kind |-> kind, resolves |-> resolves, schema |-> schema]
\* the body of a 2xx answer of the fal model search: whether models[0].openapi
\* is there, and its paths
FalDoc(openapi, paths) == [openapi |-> openapi, paths |-> paths]
FalDocs ==
    {FalDoc(FALSE, <<>>),
     FalDoc(TRUE, <<>>),
     FalDoc(TRUE, <<FalPath("none", FALSE, NoPropertiesSchema)>>),
     FalDoc(TRUE, <<FalPath("ref", FALSE, UsableSchema)>>),
     FalDoc(TRUE, <<FalPath("ref", TRUE, NoPropertiesSchema)>>),
     FalDoc(TRUE, <<FalPath("inline", FALSE, NoPropertiesSchema)>>),
     FalDoc(TRUE, <<FalPath("ref", FALSE, UsableSchema), FalPath("inline", FALSE, UsableSchema)>>),
     FalDoc(TRUE, <<FalPath("ref", TRUE, UsableSchema)>>)}

\* what the awaited fetch of a provider's endpoint yields: an exception, a
\* non-2xx answer, or a document
FetchOutcomes(provider) ==
    {[kind |-> "throw"], [kind |-> "http"]}
    \cup {[kind |-> "ok", doc |-> d] :
            d \in IF provider = "replicate" THEN ReplicateDocs ELSE FalDocs}

NoEntry == [present |-> FALSE]
Entry(result, ts) ==
    [present |-> TRUE, parameters |-> result.parameters, inputs |-> result.inputs, timestamp |-> ts]

\* route.ts:437  cached && Date.now() - cached.timestamp < CACHE_TTL
CacheFreshOrAtTTL(entry, t) == entry.present /\ t - entry.timestamp <= CACHE_TTL
CacheFresh(entry, t) == entry.present /\ t - entry.timestamp < CACHE_TTL

NoResp == [status |-> 0]
SchemaSuccess(result, cached) ==
    [status |-> 200, success |-> TRUE, parameters |-> result.parameters,
     inputs |-> result.inputs, cached |-> cached]
\* route.ts:439-444, the response served from the cache
CachedResponseAsMiss(entry) == SchemaSuccess(entry, FALSE)
CachedResponse(entry) == SchemaSuccess(entry, TRUE)
SchemaError(status, msg) == [status |-> status, success |-> FALSE, error |-> msg]

IdleLookup == [pc |-> "idle", provider |-> Null, key |-> Null, hasKey |-> FALSE, fetches |-> 0]

ValidProvider(p) == p = "replicate" \/ p = "fal"

GET_BeginDefaultingProvider(l, provider, rawId, hasKey) ==
    /\ lk[l].pc \in {"idle", "done"}
    /\ LET decodedModelId == decodeURIComponent(rawId)
           used == IF ValidProvider(provider) THEN provider ELSE "fal"
           cacheKey == CacheKey(used, decodedModelId)
           req == [pc |-> "done", provider |-> provider, key |-> cacheKey,
                   hasKey |-> hasKey, fetches |-> 0]
       IN  IF CacheFresh(schemaCache[cacheKey], now)
           THEN /\ lk' = [lk EXCEPT ![l] = req]
                /\ lkResp' = [lkResp EXCEPT ![l] = CachedResponse(schemaCache[cacheKey])]
           ELSE IF provider = "replicate" /\ ~hasKey
           THEN /\ lk' = [lk EXCEPT ![l] = req]
                /\ lkResp' = [lkResp EXCEPT ![l] = SchemaError(401,
                       "Replicate API key required. Include X-Replicate-Key header.")]
           ELSE /\ lk' = [lk EXCEPT ![l] = [req EXCEPT !.pc = "fetching", !.fetches = 1]]
                /\ lkResp' = [lkResp EXCEPT ![l] = NoResp]
    /\ UNCHANGED <<now, schemaCache, firstFetch, genVars, pureVars>>

\* GET, from its entry to its first network call or early return (route.ts:411-465)
GET_Begin(l, provider, rawId, hasKey) ==
    /\ lk[l].pc \in {"idle", "done"}
    /\ LET decodedModelId == decodeURIComponent(rawId)
           cacheKey == IF ValidProvider(provider) THEN CacheKey(provider, decodedModelId) ELSE Null
           req == [pc |-> "done", provider |-> provider, key |-> cacheKey,
                   hasKey |-> hasKey, fetches |-> 0]
       IN  IF ~ValidProvider(provider)
           THEN /\ lk' = [lk EXCEPT ![l] = req]
                /\ lkResp' = [lkResp EXCEPT ![l] = SchemaError(400,
                       "Invalid or missing provider. Use ?provider=replicate or ?provider=fal")]
           ELSE IF CacheFresh(schemaCache[cacheKey], now)
           THEN /\ lk' = [lk EXCEPT ![l] = req]
                /\ lkResp' = [lkResp EXCEPT ![l] = CachedResponse(schemaCache[cacheKey])]
           ELSE IF provider = "replicate" /\ ~hasKey
           THEN /\ lk' = [lk EXCEPT ![l] = req]
                /\ lkResp' = [lkResp EXCEPT ![l] = SchemaError(401,
                       "Replicate API key required. Include X-Replicate-Key header.")]
           ELSE /\ lk' = [lk EXCEPT ![l] = [req EXCEPT !.pc = "fetching", !.fetches = 1]]
                /\ lkResp' = [lkResp EXCEPT ![l] = NoResp]
    /\ UNCHANGED <<now, schemaCache, firstFetch, genVars, pureVars>>

\* fetchReplicateSchema / fetchFalSchema: what the awaited fetch yields.
\* "thrown" is an exception reaching GET's catch block.
fetchReplicateSchemaStrict(outcome) ==
    CASE outcome.kind = "throw" -> [thrown |-> TRUE, error |-> "fetch failed"]
      [] outcome.kind = "http" -> [thrown |-> TRUE, error |-> "Replicate API error: 500"]
      [] OTHER ->
            IF ~outcome.doc.openapi \/ outcome.doc.input # "object"
            THEN [thrown |-> TRUE, error |-> "No input schema"]
            ELSE [thrown |-> FALSE, result |-> extractParametersFromSchema(outcome.doc.schema)]

\* route.ts:233-269
fetchReplicateSchema(outcome) ==
    CASE outcome.kind = "throw" -> [thrown |-> TRUE, error |-> "fetch failed"]
      [] outcome.kind = "http" -> [thrown |-> TRUE, error |-> "Replicate API error: 500"]
      [] OTHER ->
            [thrown |-> FALSE,
             result |-> IF ~outcome.doc.openapi THEN EmptySchema
                        ELSE IF outcome.doc.input # "object" THEN EmptySchema
                        ELSE extractParametersFromSchema(outcome.doc.schema)]

\* route.ts:310-332: the input schema of the first path that has one, from path i on
RECURSIVE FalInputSchema(_, _)
FalInputSchema(paths, i) ==
    IF i > Len(paths) THEN [found |-> FALSE, schema |-> NoPropertiesSchema]
    ELSE IF paths[i].kind = "ref" /\ paths[i].resolves
    THEN [found |-> TRUE, schema |-> paths[i].schema]
    ELSE IF paths[i].kind = "inline" /\ paths[i].schema.hasProperties
    THEN [found |-> TRUE, schema |-> paths[i].schema]
    ELSE FalInputSchema(paths, i + 1)

\* route.ts:275-342
fetchFalSchema(outcome) ==
    CASE outcome.kind = "throw" -> [thrown |-> TRUE, error |-> "fetch failed"]
      [] outcome.kind = "http" -> [thrown |-> FALSE, result |-> EmptySchema]
      [] OTHER ->
            [thrown |-> FALSE,
             result |-> IF ~outcome.doc.openapi THEN EmptySchema
                        ELSE IF ~FalInputSchema(outcome.doc.paths, 1).found THEN EmptySchema
                        ELSE extractParametersFromSchema(
                                 FalInputSchema(outcome.doc.paths, 1).schema)]

\* GET, from the return of the fetcher to the response (route.ts:461-487)
GET_FetchReturnMerging(l, outcome) ==
    /\ lk[l].pc = "fetching"
    /\ LET r == IF lk[l].provider = "replicate"
                THEN fetchReplicateSchema(outcome) ELSE fetchFalSchema(outcome)
           k == lk[l].key
           old == schemaCache[k]
       IN  IF r.thrown
           THEN /\ lkResp' = [lkResp EXCEPT ![l] = SchemaError(500, r.error)]
                /\ UNCHANGED schemaCache
           ELSE /\ schemaCache' = [schemaCache EXCEPT ![k] =
                       IF old.present
                       THEN [present |-> TRUE,
                             parameters |-> IF r.result.parameters = <<>>
                                            THEN old.parameters ELSE r.result.parameters,
                             inputs |-> IF r.result.inputs = <<>>
                                        THEN old.inputs ELSE r.result.inputs,
                             timestamp |-> now]
                       ELSE Entry(r.result, now)]
                /\ lkResp' = [lkResp EXCEPT ![l] = SchemaSuccess(r.result, FALSE)]
    /\ lk' = [lk EXCEPT ![l].pc = "done"]
    /\ UNCHANGED <<now, genVars, pureVars>>
GET_FetchReturnCore(l, outcome) ==
    /\ lk[l].pc = "fetching"
    /\ LET r == IF lk[l].provider = "replicate"
                THEN fetchReplicateSchema(outcome) ELSE fetchFalSchema(outcome)
           k == lk[l].key
       IN  IF r.thrown
           THEN /\ lkResp' = [lkResp EXCEPT ![l] = SchemaError(500, r.error)]
                /\ UNCHANGED schemaCache
           ELSE /\ schemaCache' = [schemaCache EXCEPT ![k] = Entry(r.result, now)]
                /\ lkResp' = [lkResp EXCEPT ![l] = SchemaSuccess(r.result, FALSE)]
    /\ lk' = [lk EXCEPT ![l].pc = "done"]
    /\ UNCHANGED <<now, genVars, pureVars>>

GET_FetchReturnCachingErrors(l, outcome) ==
    /\ lk[l].pc = "fetching"
    /\ LET r == IF lk[l].provider = "replicate"
                THEN fetchReplicateSchema(outcome) ELSE fetchFalSchema(outcome)
           k == lk[l].key
       IN  IF r.thrown
           THEN /\ lkResp' = [lkResp EXCEPT ![l] = SchemaError(500, r.error)]
                /\ schemaCache' = [schemaCache EXCEPT ![k] = Entry(EmptySchema, now)]
           ELSE /\ schemaCache' = [schemaCache EXCEPT ![k] = Entry(r.result, now)]
                /\ lkResp' = [lkResp EXCEPT ![l] = SchemaSuccess(r.result, FALSE)]
    /\ lk' = [lk EXCEPT ![l].pc = "done"]
    /\ UNCHANGED <<now, genVars, pureVars>>
    /\ UNCHANGED firstFetch
GET_FetchReturn(l, outcome) ==
    /\ GET_FetchReturnCore(l, outcome)
    /\ UNCHANGED firstFetch

\* the same step, with the history variable firstFetch kept: the earliest store
\* for the key that is less than TTL old
GET_FetchReturnRecorded(l, outcome) ==
    /\ GET_FetchReturnCore(l, outcome)
    /\ firstFetch' = [firstFetch EXCEPT ![lk[l].key] =
           IF schemaCache'[lk[l].key] = schemaCache[lk[l].key] THEN @
           ELSE IF @.present /\ now - @.timestamp < CACHE_TTL THEN @
           ELSE schemaCache'[lk[l].key]]

\* The clock advances between any two steps
Tick ==
    /\ now + TickMs <= MaxNow
    /\ now' = now + TickMs
    /\ UNCHANGED <<lookupVars, genVars, pureVars>>

LookupInit ==
    /\ schemaCache = [k \in CacheKeys |-> NoEntry]
    /\ lk = [l \in LookupIds |-> IdleLookup]
    /\ lkResp = [l \in LookupIds |-> NoResp]
    /\ firstFetch = [k \in CacheKeys |-> NoEntry]

\* no generation request has arrived
GenIdle ==
    /\ gReq = [bodyOk |-> FALSE, tag |-> Null, hasKey |-> FALSE, prompt |-> "", images |-> <<>>,
               parameters |-> <<>>, dynamicInputs |-> [given |-> FALSE, map |-> <<>>]]
    /\ gPc = "idle"
    /\ gIn = [name |-> "", prompt |-> "", images |-> <<>>, parameters |-> <<>>,
              dynamicInputs |-> [given |-> FALSE, map |-> <<>>], hasKey |-> FALSE]
    /\ gAd = [payload |-> <<>>, status |-> Null, output |-> [kind |-> "none", urls |-> <<>>],
              error |-> Null, startTime |-> -1, mediaUrl |-> Null, isVideoModel |-> FALSE,
              polls |-> 0]
    /\ gCalls = <<>> /\ gResp = NoResp
    /\ job = [status |-> "none", output |-> [kind |-> "none", urls |-> <<>>], error |-> Null,
              terminalAt |-> -1]

\* no schema has been handed to the InputMapper
MapperIdle ==
    /\ mProps = [present |-> FALSE, hasProperties |-> FALSE, properties |-> <<>>]
    /\ mMap = <<>>
    /\ mBy = "none"

\* no media has been handed to the MediaNormalizer
MediaIdle ==
    /\ mdIn = [url |-> "", kind |-> "ok", contentType |-> Null, byteLength |-> 0,
               base64 |-> "", isVideoModel |-> FALSE]
    /\ mdR = <<>>
    /\ mdF = <<>>

\* no medium has been fetched
CodecIdle ==
    /\ rtIn = [bytes |-> <<>>, contentType |-> Null]
    /\ rtUri = ""
    /\ rtOut = [done |-> FALSE, bytes |-> <<>>, extension |-> ""]

\* no schema has been handed to the SchemaExtractor
ExtractIdle ==
    /\ exIn = [hasProperties |-> FALSE, properties |-> <<>>, required |-> <<>>,
               hasComponents |-> FALSE]
    /\ exOut = [done |-> FALSE, runs |-> 0, parameters |-> <<>>, inputs |-> <<>>]

Init ==
    /\ now = 0
    /\ LookupInit
    /\ GenIdle
    /\ MapperIdle
    /\ MediaIdle
    /\ ExtractIdle
    /\ CodecIdle

\* The requests tried: every provider parameter; the credential header and the
\* percent-encoding of the model id are varied for replicate.
LookupInputs ==
    {<<p, m, h>> \in ProviderParams \X RawModelIds \X BOOLEAN :
        p = "replicate" \/ (h = FALSE /\ m = "o/m")}

GET_BeginAny == \E l \in LookupIds, i \in LookupInputs : GET_Begin(l, i[1], i[2], i[3])
GET_FetchReturnAny ==
    \E l \in LookupIds : \E o \in FetchOutcomes(lk[l].provider) : GET_FetchReturn(l, o)

Next ==
    \/ GET_BeginAny
    \/ GET_FetchReturnAny
    \/ Tick

Spec == Init /\ [][Next]_vars

\* The lookup with its fetch history recorded
GET_FetchReturnRecordedAny ==
    \E l \in LookupIds : \E o \in FetchOutcomes(lk[l].provider) : GET_FetchReturnRecorded(l, o)

NextHist ==
    \/ GET_BeginAny
    \/ GET_FetchReturnRecordedAny
    \/ Tick

SpecHist == Init /\ [][NextHist]_vars

(***************************************************************************)
(* InputMapper: generate/route.ts:234-313 and 584-628                      *)
(***************************************************************************)
INPUT_PATTERNS ==
    [prompt |-> <<"prompt", "text", "caption", "input_text", "description", "query">>,
     negativePrompt |-> <<"negative_prompt", "negative", "neg_prompt", "negative_text">>,
     image |-> <<"image_url", "image", "first_frame", "start_image", "init_image",
                 "reference_image", "input_image", "source_image", "img", "photo">>,
     aspectRatio |-> <<"aspect_ratio", "ratio", "size", "dimensions", "output_size">>,
     duration |-> <<"duration", "length", "num_frames", "seconds", "video_length">>,
     fps |-> <<"fps", "frame_rate", "framerate", "frames_per_second">>,
     audio |-> <<"audio_enabled", "with_audio", "enable_audio", "audio", "sound">>,
     seed |-> <<"seed", "random_seed", "noise_seed">>,
     steps |-> <<"steps", "num_steps", "num_inference_steps", "inference_steps">>,
     guidance |-> <<"guidance_scale", "guidance", "cfg_scale", "cfg">>,
     scheduler |-> <<"scheduler", "sampler", "sampler_name">>,
     strength |-> <<"strength", "denoise", "denoising_strength">>]

GenericNames == DOMAIN INPUT_PATTERNS

\* route.ts:298-301: the case-insensitive partial match of one name and one pattern
PartialMatchOneWay(name, pattern) == Includes(toLowerCase(pattern), toLowerCase(name))
PartialMatch(name, pattern) ==
    \/ Includes(toLowerCase(name), toLowerCase(pattern))
    \/ Includes(toLowerCase(pattern), toLowerCase(name))

\* propertyNames.find(...): the first property name, in declaration order, that matches
FindPartial(propertyNames, pattern) ==
    IF \E i \in 1..Len(propertyNames) : PartialMatch(propertyNames[i], pattern)
    THEN propertyNames[CHOOSE i \in 1..Len(propertyNames) :
            /\ PartialMatch(propertyNames[i], pattern)
            /\ \A j \in 1..(i - 1) : ~PartialMatch(propertyNames[j], pattern)]
    ELSE Null

\* route.ts:291-306: the loop over the patterns of one generic name, from pattern i on
RECURSIVE MatchPatterns(_, _, _)
MatchPatterns(propertyNames, patterns, i) ==
    IF i > Len(patterns) THEN Null
    ELSE IF patterns[i] \in SeqToSet(propertyNames) THEN patterns[i]
    ELSE IF FindPartial(propertyNames, patterns[i]) # Null
         THEN FindPartial(propertyNames, patterns[i])
    ELSE MatchPatterns(propertyNames, patterns, i + 1)

\* the paramMap built from the declared property names (route.ts:287-307, 602-622)
ParamMapOf(propertyNames) ==
    LET hit == {g \in GenericNames : MatchPatterns(propertyNames, INPUT_PATTERNS[g], 1) # Null}
    IN  [g \in hit |-> MatchPatterns(propertyNames, INPUT_PATTERNS[g], 1)]

EmptyMap == <<>>

\* an openapi document, reduced to whether it is there, whether it has
\* components.schemas.Input.properties, and those property names in declaration order
NoSchema == [present |-> FALSE, hasProperties |-> FALSE, properties |-> <<>>]
SchemaWithout == [present |-> TRUE, hasProperties |-> FALSE, properties |-> <<>>]
SchemaWith(propertyNames) == [present |-> TRUE, hasProperties |-> TRUE, properties |-> propertyNames]

getInputMappingFromSchema(schema) ==
    IF ~schema.present THEN EmptyMap
    ELSE IF ~schema.hasProperties THEN EmptyMap
    ELSE ParamMapOf(schema.properties)

\* reply: what GET https://fal.run/{modelId}/openapi.json yields
getFalInputMapping(reply) ==
    IF reply.kind # "ok" THEN EmptyMap
    ELSE IF ~reply.schema.hasProperties THEN EmptyMap
    ELSE ParamMapOf(reply.schema.properties)

\* paramMap.x || fallback
MapOr(paramMap, key, fallback) ==
    IF key \in DOMAIN paramMap /\ paramMap[key] # "" THEN paramMap[key] ELSE fallback

(***************************************************************************)
(* Generation: POST /api/generate (generate/route.ts:855-1203)             *)
(***************************************************************************)
maxWaitTime == 5 * 60 * 1000
pollInterval == 1000

\* objects as functions from key to value
Put(obj, k, v) == [x \in DOMAIN obj \cup {k} |-> IF x = k THEN v ELSE obj[x]]
\* Object.assign(target, source)
Assign(target, source) ==
    [x \in DOMAIN target \cup DOMAIN source |-> IF x \in DOMAIN source THEN source[x] ELSE target[x]]

\* { ...input.parameters }: parameters is the list of the object's entries, in order
RECURSIVE Spread(_)
Spread(entries) ==
    IF Len(entries) = 0 THEN EmptyMap
    ELSE Put(Spread(SubSeq(entries, 1, Len(entries) - 1)),
             entries[Len(entries)][1], entries[Len(entries)][2])

\* dynamicInputs: whether the object is given, and its entries
NoDynamicInputs == [given |-> FALSE, map |-> EmptyMap]
Dyn(map) == [given |-> TRUE, map |-> map]

\* route.ts:922-944 and 1016-1039: POST drops the null, undefined and '' values
ProcessDynamicInputs(dynamicInputs) ==
    IF ~dynamicInputs.given THEN NoDynamicInputs
    ELSE Dyn([k \in {x \in DOMAIN dynamicInputs.map : Truthy(dynamicInputs.map[x])}
                |-> dynamicInputs.map[k]])

\* route.ts:879-885
HasPrompt(req) ==
    \/ Truthy(req.prompt)
    \/ /\ req.dynamicInputs.given
       /\ "prompt" \in DOMAIN req.dynamicInputs.map
       /\ Truthy(req.dynamicInputs.map["prompt"])
\* images: the list, empty when the field is absent
HasImages(req) == Len(req.images) > 0
HasImageInputs(req) ==
    /\ req.dynamicInputs.given
    /\ \E key \in DOMAIN req.dynamicInputs.map : Includes(key, "frame") \/ Includes(key, "image")
\* validation that is put off while the credential is missing
ContentValidOrKeyless(req) ==
    HasPrompt(req) \/ HasImages(req) \/ HasImageInputs(req) \/ ~req.hasKey
ContentValid(req) == HasPrompt(req) \/ HasImages(req) \/ HasImageInputs(req)

\* a body that request.json() cannot parse; also the value of gReq before any request
NoRequest == [bodyOk |-> FALSE, tag |-> Null, hasKey |-> FALSE, prompt |-> "", images |-> <<>>,
              parameters |-> <<>>, dynamicInputs |-> NoDynamicInputs]

\* route.ts:899  selectedModel?.provider || "gemini"
ProviderOf(req) == IF Truthy(req.tag) THEN req.tag ELSE "gemini"

DisplayName == "Flux"

\* route.ts:947-959 and 1042-1054
GenInput(req) ==
    [name |-> DisplayName,
     prompt |-> IF Truthy(req.prompt) THEN req.prompt ELSE "",
     images |-> req.images,
     parameters |-> req.parameters,
     dynamicInputs |-> ProcessDynamicInputs(req.dynamicInputs),
     hasKey |-> req.hasKey]

\* route.ts:361 and 646
HasDynamicInputsGiven(input) == input.dynamicInputs.given
HasDynamicInputs(input) == input.dynamicInputs.given /\ DOMAIN input.dynamicInputs.map # {}

\* route.ts:393-402 and 687-696: the parameters placed under their mapped names
RECURSIVE PutMapped(_, _, _, _)
PutMapped(obj, paramMap, entries, i) ==
    IF i > Len(entries) THEN obj
    ELSE PutMapped(Put(obj, MapOr(paramMap, entries[i][1], entries[i][1]), entries[i][2]),
                   paramMap, entries, i + 1)

\* route.ts:378-402 and 672-696: the heuristic path
HeuristicBody(input, paramMap, imageFallback) ==
    LET base == Spread(input.parameters)
        p1 == IF input.prompt # ""
              THEN Put(base, MapOr(paramMap, "prompt", "prompt"), input.prompt) ELSE base
        p2 == IF Len(input.images) > 0
              THEN Put(p1, MapOr(paramMap, "image", imageFallback), input.images[1]) ELSE p1
    IN  PutMapped(p2, paramMap, input.parameters, 1)

\* route.ts:363-403: predictionInput
PredictionInput(input, schema) ==
    IF HasDynamicInputs(input)
    THEN Assign(Spread(input.parameters), input.dynamicInputs.map)
    ELSE HeuristicBody(input, getInputMappingFromSchema(schema), "image")

\* route.ts:650-666: requestBody when dynamic inputs are present
FalDynamicBody(input) ==
    LET filteredInputs ==
            [k \in {x \in DOMAIN input.dynamicInputs.map : Truthy(input.dynamicInputs.map[x])}
                |-> input.dynamicInputs.map[k]]
    IN  Assign(Spread(input.parameters), filteredInputs)

\* responses of POST; absent fields are Null
GenFailure(status, msg) == [status |-> status, success |-> FALSE, error |-> msg]
GenSuccess(image, video, videoUrl, contentType) ==
    [status |-> 200, success |-> TRUE, image |-> image, video |-> video,
     videoUrl |-> videoUrl, contentType |-> contentType]

\* route.ts:1124-1202: the catch block of POST
Caught(errorMessage) ==
    IF Includes(errorMessage, "429")
    THEN GenFailure(429, "Rate limit reached. Please wait and try again.")
    ELSE GenFailure(500, errorMessage \o " | Details: <stack>")

\* GenerationOutput of an adapter
AdFailure(msg) == [success |-> FALSE, error |-> msg]
AdSuccess(type, data, url) ==
    [success |-> TRUE, outputs |-> <<[type |-> type, data |-> data, url |-> url]>>]

\* route.ts:963-1001 and 1058-1096: the response shaped from the adapter's result
FromAdapter(result) ==
    IF ~result.success
    THEN GenFailure(500, IF Truthy(result.error) THEN result.error ELSE "Generation failed")
    ELSE IF Len(result.outputs) = 0 \/ ~Truthy(result.outputs[1].data)
    THEN GenFailure(500, "No output in generation result")
    ELSE IF result.outputs[1].type = "video"
    THEN IF StartsWith(result.outputs[1].data, "http")
         THEN GenSuccess(Null, Null, result.outputs[1].data, "video")
         ELSE GenSuccess(Null, result.outputs[1].data, Null, "video")
    ELSE GenSuccess(result.outputs[1].data, Null, Null, "image")

\* a provider call appended to the log, and the reply of the last call recorded
Issue(calls, kind) == Append(calls, [kind |-> kind, reply |-> "pending"])
Replied(calls, reply) == [calls EXCEPT ![Len(calls)].reply = reply]

ReplyTag(o) ==
    CASE o.kind = "throw" -> "throw"
      [] o.kind = "http" -> IF o.status = 429 THEN "http_429" ELSE "http_error"
      [] OTHER -> "ok"

\* prediction.output: absent, a single URL, or a list of URLs
NoOutput == [kind |-> "none", urls |-> <<>>]
SingleOutput(url) == [kind |-> "single", urls |-> <<url>>]
ListOutput(urls) == [kind |-> "list", urls |-> urls]

\* startTime is -1 until polling starts
NoLocals == [payload |-> EmptyMap, status |-> Null, output |-> NoOutput, error |-> Null,
             startTime |-> -1, mediaUrl |-> Null, isVideoModel |-> FALSE, polls |-> 0]

\* the handler returns: the response is sent
Respond(resp) ==
    /\ gPc' = "done"
    /\ gResp' = resp

\* POST, from its entry to the adapter's first provider call or an early return
POST_Begin(req) ==
    /\ gPc = "idle"
    /\ gReq' = req
    /\ IF ~req.bodyOk
       THEN /\ Respond(Caught("Unexpected end of JSON input"))
            /\ UNCHANGED <<gIn, gAd, gCalls>>
       ELSE IF ~ContentValid(req)
       THEN /\ Respond(GenFailure(400, "Prompt or image input is required"))
            /\ UNCHANGED <<gIn, gAd, gCalls>>
       ELSE IF ProviderOf(req) = "replicate"
       THEN IF ~req.hasKey
            THEN /\ Respond(GenFailure(401,
                        "Replicate API key not provided. Include X-Replicate-API-Key header."))
                 /\ UNCHANGED <<gIn, gAd, gCalls>>
            ELSE /\ gIn' = GenInput(req)
                 /\ gAd' = NoLocals
                 /\ gCalls' = Issue(gCalls, "model_info")
                 /\ gPc' = "r_model"
                 /\ UNCHANGED gResp
       ELSE IF ProviderOf(req) = "fal"
       THEN /\ gIn' = GenInput(req)
            /\ IF HasDynamicInputs(GenInput(req))
               THEN /\ gAd' = [NoLocals EXCEPT !.payload = FalDynamicBody(GenInput(req))]
                    /\ gCalls' = Issue(gCalls, "submit")
                    /\ gPc' = "f_submit"
               ELSE /\ gAd' = NoLocals
                    /\ gCalls' = Issue(gCalls, "schema")
                    /\ gPc' = "f_schema"
            /\ UNCHANGED gResp
       ELSE IF ~req.hasKey
            THEN /\ Respond(GenFailure(500,
                        "API key not configured. Add GEMINI_API_KEY to .env.local or configure in Settings."))
                 /\ UNCHANGED <<gIn, gAd, gCalls>>
            ELSE /\ gIn' = GenInput(req)
                 /\ gAd' = NoLocals
                 /\ gCalls' = Issue(gCalls, "generateContent")
                 /\ gPc' = "g_call"
                 /\ UNCHANGED gResp
    /\ UNCHANGED <<now, lookupVars, pureVars, job>>

(***************************************************************************)
(* generateWithReplicate (generate/route.ts:318-579)                       *)
(***************************************************************************)
ThrowMsgs == {"fetch failed", "got status: 429 Too Many Requests"}
Throws == {[kind |-> "throw", msg |-> m] : m \in ThrowMsgs}

\* bodies of non-2xx replies: plain text, or JSON with a detail field
HttpBodies ==
    {[text |-> "Bad Gateway", isJson |-> FALSE, detail |-> Null, message |-> Null, error |-> Null],
     [text |-> "{...}", isJson |-> TRUE, detail |-> "Invalid input", message |-> Null, error |-> Null]}
HttpErrors == {[kind |-> "http", status |-> st, body |-> b] : st \in {429, 422}, b \in HttpBodies}

\* route.ts:425-432
ReplicateErrorDetail(body) ==
    IF ~body.isJson THEN body.text
    ELSE IF Truthy(body.detail) THEN body.detail
    ELSE IF Truthy(body.message) THEN body.message
    ELSE IF Truthy(body.error) THEN body.error
    ELSE body.text

MediaUrls == {"https://cdn.example/out.mp4", "https://cdn.example/out.png"}

Outputs ==
    {NoOutput, ListOutput(<<>>), SingleOutput("https://cdn.example/out.png"),
     ListOutput(<<"https://cdn.example/out.mp4", "https://cdn.example/out.png">>)}

\* the states a prediction can be reported in
JobStates ==
    {[status |-> st, output |-> NoOutput, error |-> Null] : st \in {"starting", "processing", "canceled"}}
    \cup {[status |-> "succeeded", output |-> o, error |-> Null] : o \in Outputs}
    \cup {[status |-> "failed", output |-> NoOutput, error |-> e] : e \in {Null, "NSFW content detected"}}
    \cup {[status |-> st, output |-> SingleOutput("https://cdn.example/out.png"),
           error |-> "Interrupted"] : st \in {"failed", "canceled"}}

\* route.ts:457-461, the loop condition negated
IsTerminalButCanceled(status) == status \in {"succeeded", "failed"}
IsTerminal(status) == status \in {"succeeded", "failed", "canceled"}

\* route.ts:462
TimedOutAtCeiling(t, startTime) == t - startTime >= maxWaitTime
TimedOut(t, startTime) == t - startTime > maxWaitTime

TimeoutError(name) ==
    name \o ": Generation timed out after 5 minutes. Video models may take longer - try again."

ModelInfoReplies ==
    Throws \cup {[kind |-> "http", status |-> 404]}
    \cup {[kind |-> "ok", version |-> Null, schema |-> NoSchema]}
    \cup {[kind |-> "ok", version |-> "ver1", schema |-> sc] :
            sc \in {NoSchema, SchemaWithout,
                    SchemaWith(<<"negative_prompt", "text", "image_url">>),
                    SchemaWith(<<"prompt", "random_seed">>)}}

FirstOutputLast(output) ==
    IF output.kind = "none" THEN Null
    ELSE IF Len(output.urls) = 0 THEN Null
    ELSE IF output.kind = "single" /\ output.urls[1] = "" THEN Null
    ELSE output.urls[Len(output.urls)]
\* route.ts:507-529: the URL to fetch, Null when there is no output
FirstOutput(output) ==
    IF output.kind = "none" THEN Null
    ELSE IF Len(output.urls) = 0 THEN Null
    ELSE IF output.kind = "single" /\ output.urls[1] = "" THEN Null
    ELSE output.urls[1]

\* route.ts:491-529: after the loop, up to the media fetch or a failure
R_AfterLoopNoCancelCheck(ad, calls) ==
    IF ad.status = "failed"
    THEN /\ Respond(FromAdapter(AdFailure(gIn.name \o ": " \o
                (IF Truthy(ad.error) THEN ad.error ELSE "Prediction failed"))))
         /\ gAd' = ad /\ gCalls' = calls
    ELSE IF FirstOutput(ad.output) = Null
    THEN /\ Respond(FromAdapter(AdFailure("No output from prediction")))
         /\ gAd' = ad /\ gCalls' = calls
    ELSE /\ gAd' = [ad EXCEPT !.mediaUrl = FirstOutput(ad.output)]
         /\ gCalls' = Issue(calls, "media")
         /\ gPc' = "r_media"
         /\ UNCHANGED gResp
R_AfterLoop(ad, calls) ==
    IF ad.status = "failed"
    THEN /\ Respond(FromAdapter(AdFailure(gIn.name \o ": " \o
                (IF Truthy(ad.error) THEN ad.error ELSE "Prediction failed"))))
         /\ gAd' = ad /\ gCalls' = calls
    ELSE IF ad.status = "canceled"
    THEN /\ Respond(FromAdapter(AdFailure("Prediction was canceled")))
         /\ gAd' = ad /\ gCalls' = calls
    ELSE IF FirstOutput(ad.output) = Null
    THEN /\ Respond(FromAdapter(AdFailure("No output from prediction")))
         /\ gAd' = ad /\ gCalls' = calls
    ELSE /\ gAd' = [ad EXCEPT !.mediaUrl = FirstOutput(ad.output)]
         /\ gCalls' = Issue(calls, "media")
         /\ gPc' = "r_media"
         /\ UNCHANGED gResp

\* route.ts:457-469: the loop condition and the timeout check, evaluated at time t
R_Loop(ad, calls, t) ==
    IF IsTerminal(ad.status)
    THEN R_AfterLoop(ad, calls)
    ELSE IF TimedOut(t, ad.startTime)
    THEN /\ Respond(FromAdapter(AdFailure(TimeoutError(gIn.name))))
         /\ gAd' = ad /\ gCalls' = calls
    ELSE /\ gPc' = "r_sleep"
         /\ gAd' = ad /\ gCalls' = calls
         /\ UNCHANGED gResp

\* route.ts:335-422: the model reply arrives; the prediction is submitted
R_ModelReply(o) ==
    /\ gPc = "r_model"
    /\ IF o.kind = "throw"
       THEN /\ Respond(Caught(o.msg))
            /\ gCalls' = Replied(gCalls, ReplyTag(o))
            /\ UNCHANGED gAd
       ELSE IF o.kind = "http"
       THEN /\ Respond(FromAdapter(AdFailure("Failed to get model info: 404")))
            /\ gCalls' = Replied(gCalls, ReplyTag(o))
            /\ UNCHANGED gAd
       ELSE IF o.version = Null
       THEN /\ Respond(FromAdapter(AdFailure("Model has no available version")))
            /\ gCalls' = Replied(gCalls, "no_version")
            /\ UNCHANGED gAd
       ELSE /\ gAd' = [gAd EXCEPT !.payload = PredictionInput(gIn, o.schema)]
            /\ gCalls' = Issue(Replied(gCalls, "ok"), "submit")
            /\ gPc' = "r_submit"
            /\ UNCHANGED gResp
    /\ UNCHANGED <<now, lookupVars, pureVars, gReq, gIn, job>>

\* route.ts:424-469: the reply to the submission arrives; polling starts
R_SubmitReply(o) ==
    /\ gPc = "r_submit"
    /\ IF o.kind = "throw"
       THEN /\ Respond(Caught(o.msg))
            /\ gCalls' = Replied(gCalls, ReplyTag(o))
            /\ UNCHANGED <<gAd, job>>
       ELSE IF o.kind = "http"
       THEN /\ Respond(FromAdapter(AdFailure(
                    IF o.status = 429
                    THEN gIn.name \o ": Rate limit exceeded. Try again in a moment."
                    ELSE gIn.name \o ": " \o ReplicateErrorDetail(o.body))))
            /\ gCalls' = Replied(gCalls, ReplyTag(o))
            /\ UNCHANGED <<gAd, job>>
       ELSE /\ job' = [status |-> o.job.status, output |-> o.job.output, error |-> o.job.error,
                       terminalAt |-> IF o.job.status \in {"succeeded", "failed", "canceled"}
                                      THEN now ELSE -1]
            /\ R_Loop([gAd EXCEPT !.status = o.job.status, !.output = o.job.output,
                                   !.error = o.job.error, !.startTime = now],
                      Replied(gCalls, o.job.status), now)
    /\ UNCHANGED <<now, lookupVars, pureVars, gReq, gIn>>

\* a loop iteration that fetches the status without sleeping first
R_WakeNoSleep ==
    /\ gPc = "r_sleep"
    /\ gAd.polls < MaxPolls
    /\ now' = now
    /\ gAd' = [gAd EXCEPT !.polls = @ + 1]
    /\ gCalls' = Issue(gCalls, "poll")
    /\ gPc' = "r_poll"
    /\ UNCHANGED <<lookupVars, pureVars, gReq, gIn, gResp, job>>
\* route.ts:469-478: the sleep ends and the status is fetched
R_Wake ==
    /\ gPc = "r_sleep"
    /\ gAd.polls < MaxPolls
    /\ now' = now + pollInterval
    /\ gAd' = [gAd EXCEPT !.polls = @ + 1]
    /\ gCalls' = Issue(gCalls, "poll")
    /\ gPc' = "r_poll"
    /\ UNCHANGED <<lookupVars, pureVars, gReq, gIn, gResp, job>>

\* route.ts:480-489 and the next evaluation of the loop condition
R_PollReplyRetrying(o) ==
    /\ gPc = "r_poll"
    /\ IF o.kind = "throw"
       THEN /\ Respond(Caught(o.msg))
            /\ gCalls' = Replied(gCalls, ReplyTag(o))
            /\ UNCHANGED gAd
       ELSE IF o.kind = "http"
       THEN /\ gPc' = "r_sleep"
            /\ gCalls' = Replied(gCalls, ReplyTag(o))
            /\ UNCHANGED <<gAd, gResp>>
       ELSE R_Loop([gAd EXCEPT !.status = job.status, !.output = job.output,
                                !.error = job.error],
                   Replied(gCalls, job.status), now)
    /\ UNCHANGED <<now, lookupVars, pureVars, gReq, gIn, job>>
R_PollReply(o) ==
    /\ gPc = "r_poll"
    /\ IF o.kind = "throw"
       THEN /\ Respond(Caught(o.msg))
            /\ gCalls' = Replied(gCalls, ReplyTag(o))
            /\ UNCHANGED gAd
       ELSE IF o.kind = "http"
       THEN /\ Respond(FromAdapter(AdFailure("Failed to poll prediction: 500")))
            /\ gCalls' = Replied(gCalls, ReplyTag(o))
            /\ UNCHANGED gAd
       ELSE R_Loop([gAd EXCEPT !.status = job.status, !.output = job.output,
                                !.error = job.error],
                   Replied(gCalls, job.status), now)
    /\ UNCHANGED <<now, lookupVars, pureVars, gReq, gIn, job>>

PollReplies == Throws \cup {[kind |-> "http", status |-> 500], [kind |-> "ok"]}

\* the provider: time passes while a status fetch is in flight
Elapse(d) ==
    /\ gPc = "r_poll"
    /\ now - gAd.startTime <= maxWaitTime
    /\ now' = now + d
    /\ UNCHANGED <<lookupVars, genVars, pureVars>>

\* the provider: the prediction moves on (starting -> processing -> terminal)
JobAdvance(j) ==
    /\ gPc \in {"r_sleep", "r_poll"}
    /\ job.status \in {"starting", "processing"}
    /\ j.status # "starting" /\ j.status # job.status
    /\ job' = [status |-> j.status, output |-> j.output, error |-> j.error,
               terminalAt |-> IF j.status = "processing" THEN -1 ELSE now]
    /\ UNCHANGED <<now, lookupVars, pureVars, gReq, gPc, gIn, gAd, gCalls, gResp>>

(***************************************************************************)
(* MediaNormalizer (generate/route.ts:526-578 and 801-852)                 *)
(***************************************************************************)
MediaSizes == {1024, 20 * 1024 * 1024, 20 * 1024 * 1024 + 1}
MediaReplies ==
    Throws \cup {[kind |-> "http", status |-> 404]}
    \cup {[kind |-> "ok", contentType |-> ct, byteLength |-> n, base64 |-> "AAAA"] :
            ct \in {Null, "image/png", "video/mp4"}, n \in MediaSizes}

\* route.ts:544 and 552: mediaSizeMB > 20
TooLargeForBase64AtThreshold(byteLength) == byteLength >= 20 * (1024 * 1024)
TooLargeForBase64(byteLength) == byteLength > 20 * (1024 * 1024)

\* route.ts:538-578
ReplicateOutput(mediaUrl, o) ==
    LET contentType == IF Truthy(o.contentType) THEN o.contentType ELSE "image/png"
        isVideo == StartsWith(contentType, "video/")
    IN  IF isVideo /\ TooLargeForBase64(o.byteLength)
        THEN AdSuccess("video", mediaUrl, mediaUrl)
        ELSE AdSuccess(IF isVideo THEN "video" ELSE "image",
                       "data:" \o contentType \o ";base64," \o o.base64, mediaUrl)

\* route.ts:812-852
FalOutput(mediaUrl, isVideoModel, o) ==
    LET contentType == IF Truthy(o.contentType) THEN o.contentType
                       ELSE IF isVideoModel THEN "video/mp4" ELSE "image/png"
        isVideo == StartsWith(contentType, "video/") \/ isVideoModel
    IN  IF isVideo /\ TooLargeForBase64(o.byteLength)
        THEN AdSuccess("video", mediaUrl, mediaUrl)
        ELSE AdSuccess(IF isVideo THEN "video" ELSE "image",
                       "data:" \o contentType \o ";base64," \o o.base64, mediaUrl)

\* route.ts:529-578: the reply to the media fetch arrives
R_MediaReply(o) ==
    /\ gPc = "r_media"
    /\ gCalls' = Replied(gCalls, ReplyTag(o))
    /\ IF o.kind = "throw" THEN Respond(Caught(o.msg))
       ELSE IF o.kind = "http" THEN Respond(FromAdapter(AdFailure("Failed to fetch output: 404")))
       ELSE Respond(FromAdapter(ReplicateOutput(gAd.mediaUrl, o)))
    /\ UNCHANGED <<now, lookupVars, pureVars, gReq, gIn, gAd, job>>

(***************************************************************************)
(* generateWithFal (generate/route.ts:633-853)                             *)
(***************************************************************************)
FalSchemaReplies ==
    Throws \cup {[kind |-> "http", status |-> 404]}
    \cup {[kind |-> "ok", schema |-> sc] :
            sc \in {SchemaWithout, SchemaWith(<<"text", "image">>),
                    SchemaWith(<<"prompt", "random_seed">>)}}

\* the shapes of a 2xx reply of fal.run (route.ts:771-791)
FalResults ==
    {[video |-> "https://cdn.example/out.mp4", images |-> <<>>, image |-> Null, output |-> Null],
     [video |-> Null, images |-> <<"https://cdn.example/out.png">>, image |-> Null, output |-> Null],
     [video |-> Null, images |-> <<>>, image |-> "https://cdn.example/out.png", output |-> Null],
     [video |-> Null, images |-> <<>>, image |-> Null, output |-> "https://cdn.example/out.png"],
     [video |-> Null, images |-> <<>>, image |-> Null, output |-> Null]}
FalSubmitReplies == Throws \cup HttpErrors \cup {[kind |-> "ok", result |-> r] : r \in FalResults}

\* route.ts:776-791; video and image stand for video.url and image.url, images
\* for the url fields of the list (empty when the field is absent)
FalMediaUrl(result) ==
    IF Truthy(result.video) THEN result.video
    ELSE IF Len(result.images) > 0 THEN result.images[1]
    ELSE IF Truthy(result.image) THEN result.image
    ELSE IF Truthy(result.output) THEN result.output
    ELSE Null

\* route.ts:729-753, for the bodies of HttpBodies
FalErrorDetail(body) ==
    IF ~body.isJson THEN (IF body.text = "" THEN "HTTP error" ELSE body.text)
    ELSE IF Truthy(body.detail) THEN body.detail
    ELSE IF Truthy(body.message) THEN body.message
    ELSE IF Truthy(body.error) THEN body.error
    ELSE body.text

\* route.ts:669-723: getFalInputMapping returns; the request is submitted
F_SchemaReply(o) ==
    /\ gPc = "f_schema"
    /\ gAd' = [gAd EXCEPT !.payload = HeuristicBody(gIn, getFalInputMapping(o), "image_url")]
    /\ gCalls' = Issue(Replied(gCalls, ReplyTag(o)), "submit")
    /\ gPc' = "f_submit"
    /\ UNCHANGED <<now, lookupVars, pureVars, gReq, gIn, gResp, job>>

\* route.ts:725-803: the reply to the submission arrives; the media is fetched
F_SubmitReply(o) ==
    /\ gPc = "f_submit"
    /\ IF o.kind = "throw"
       THEN /\ Respond(Caught(o.msg))
            /\ gCalls' = Replied(gCalls, ReplyTag(o))
            /\ UNCHANGED gAd
       ELSE IF o.kind = "http"
       THEN /\ gCalls' = Replied(gCalls, ReplyTag(o))
            /\ Respond(FromAdapter(AdFailure(
                    IF o.status = 429
                    THEN gIn.name \o ": Rate limit exceeded. " \o
                         (IF gIn.hasKey THEN "Try again in a moment."
                          ELSE "Add an API key in settings for higher limits.")
                    ELSE gIn.name \o ": " \o FalErrorDetail(o.body))))
            /\ UNCHANGED gAd
       ELSE IF FalMediaUrl(o.result) = Null
       THEN /\ Respond(FromAdapter(AdFailure("No media URL in response")))
            /\ gCalls' = Replied(gCalls, "no_media_url")
            /\ UNCHANGED gAd
       ELSE /\ gAd' = [gAd EXCEPT !.mediaUrl = FalMediaUrl(o.result),
                                  !.isVideoModel = Truthy(o.result.video)]
            /\ gCalls' = Issue(Replied(gCalls, "ok"), "media")
            /\ gPc' = "f_media"
            /\ UNCHANGED gResp
    /\ UNCHANGED <<now, lookupVars, pureVars, gReq, gIn, job>>

\* route.ts:803-852: the reply to the media fetch arrives
F_MediaReply(o) ==
    /\ gPc = "f_media"
    /\ gCalls' = Replied(gCalls, ReplyTag(o))
    /\ IF o.kind = "throw" THEN Respond(Caught(o.msg))
       ELSE IF o.kind = "http" THEN Respond(FromAdapter(AdFailure("Failed to fetch output: 404")))
       ELSE Respond(FromAdapter(FalOutput(gAd.mediaUrl, gAd.isVideoModel, o)))
    /\ UNCHANGED <<now, lookupVars, pureVars, gReq, gIn, gAd, job>>

(***************************************************************************)
(* generateWithGemini (generate/route.ts:29-229)                           *)
(***************************************************************************)
\* a part: inlineData.mimeType, inlineData.data and text, Null when absent
ImagePart == [mimeType |-> "image/png", data |-> "AAAA", text |-> Null]
TextPart == [mimeType |-> Null, data |-> Null, text |-> "I cannot draw that"]
OtherPart == [mimeType |-> Null, data |-> Null, text |-> Null]
\* an inline payload without a MIME type
BarePart == [mimeType |-> Null, data |-> "BBBB", text |-> Null]
\* candidates: the list, empty when absent; a candidate: whether content.parts is there
GeminiReplies ==
    Throws \cup {[kind |-> "ok", candidates |-> <<>>],
                 [kind |-> "ok", candidates |-> <<[hasParts |-> FALSE, parts |-> <<>>]>>]}
    \cup {[kind |-> "ok", candidates |-> <<[hasParts |-> TRUE, parts |-> ps]>>] :
            ps \in {<<>>, <<TextPart>>, <<ImagePart>>, <<TextPart, BarePart>>, <<OtherPart>>,
                    <<ImagePart, TextPart>>, <<OtherPart, TextPart>>}}

IsImagePart(part) == Truthy(part.data)
IsTextPart(part) == Truthy(part.text)
\* the index of the first part with image data, and of the first with text; 0 if none
FirstImageIndex(parts) ==
    IF \E i \in 1..Len(parts) : IsImagePart(parts[i])
    THEN CHOOSE i \in 1..Len(parts) :
            IsImagePart(parts[i]) /\ \A j \in 1..(i - 1) : ~IsImagePart(parts[j])
    ELSE 0
FirstTextIndex(parts) ==
    IF \E i \in 1..Len(parts) : IsTextPart(parts[i])
    THEN CHOOSE i \in 1..Len(parts) :
            IsTextPart(parts[i]) /\ \A j \in 1..(i - 1) : ~IsTextPart(parts[j])
    ELSE 0

GeminiResponseTextFirst(o) ==
    IF Len(o.candidates) = 0
    THEN GenFailure(500, "No response from AI model")
    ELSE IF ~o.candidates[1].hasParts
    THEN GenFailure(500, "No content in response")
    ELSE LET parts == o.candidates[1].parts IN
         IF FirstTextIndex(parts) # 0
         THEN GenFailure(500, "Model returned text instead of image: " \o
                              parts[FirstTextIndex(parts)].text)
         ELSE IF FirstImageIndex(parts) # 0
         THEN LET part == parts[FirstImageIndex(parts)]
                  mimeType == IF Truthy(part.mimeType) THEN part.mimeType ELSE "image/png"
              IN  GenSuccess("data:" \o mimeType \o ";base64," \o part.data,
                             Null, Null, Null)
         ELSE GenFailure(500, "No image in response")

\* route.ts:135-228
GeminiResponse(o) ==
    IF Len(o.candidates) = 0
    THEN GenFailure(500, "No response from AI model")
    ELSE IF ~o.candidates[1].hasParts
    THEN GenFailure(500, "No content in response")
    ELSE LET parts == o.candidates[1].parts IN
         IF FirstImageIndex(parts) # 0
         THEN LET part == parts[FirstImageIndex(parts)]
                  mimeType == IF Truthy(part.mimeType) THEN part.mimeType ELSE "image/png"
              IN  GenSuccess("data:" \o mimeType \o ";base64," \o part.data,
                             Null, Null, Null)
         ELSE IF FirstTextIndex(parts) # 0
         THEN GenFailure(500, "Model returned text instead of image: " \o
                              parts[FirstTextIndex(parts)].text)
         ELSE GenFailure(500, "No image in response")

\* route.ts:118-228: the SDK call returns or throws
G_Reply(o) ==
    /\ gPc = "g_call"
    /\ gCalls' = Replied(gCalls, ReplyTag(o))
    /\ IF o.kind = "throw" THEN Respond(Caught(o.msg)) ELSE Respond(GeminiResponse(o))
    /\ UNCHANGED <<now, lookupVars, pureVars, gReq, gIn, gAd, job>>

(***************************************************************************)
(* The generation endpoint serving one request                            *)
(***************************************************************************)
Latencies == {149000}

DataUri == "data:image/png;base64,AAAA"
AllRequests ==
    {[bodyOk |-> TRUE, tag |-> tg, hasKey |-> hk, prompt |-> pr, images |-> im,
      parameters |-> pa, dynamicInputs |-> dy] :
        tg \in {Null, "replicate", "fal", "openai"}, hk \in BOOLEAN,
        pr \in {"", "a cat"}, im \in {<<>>, <<DataUri>>},
        pa \in {<<>>, << <<"seed", "7">>, <<"image_url", "https://in.example/p.png">> >>},
        dy \in {NoDynamicInputs, Dyn(EmptyMap), Dyn([image_url |-> ""]),
                Dyn([prompt |-> "a dog", image_url |-> Null]),
                Dyn([prompt |-> "", image_url |-> DataUri])}}

\* The requests tried: the full variety for the providers answering in one or
\* two calls; for replicate, whose polling multiplies the runs, an empty request,
\* one with prompt and image, and one with dynamic inputs.
GenRequests ==
    {r \in AllRequests :
        r.tag = "replicate" =>
            \/ r.prompt = "" /\ r.images = <<>> /\ r.parameters = <<>> /\ ~r.dynamicInputs.given
            \/ /\ r.prompt = "a cat" /\ r.images = <<DataUri>> /\ r.parameters # <<>>
               /\ r.dynamicInputs \in {NoDynamicInputs, Dyn([prompt |-> "a dog", image_url |-> Null])}}
    \cup {NoRequest}

POST_BeginAny == \E req \in GenRequests : POST_Begin(req)
R_ModelReplyAny == \E o \in ModelInfoReplies : R_ModelReply(o)
R_SubmitReplyAny ==
    \E o \in Throws \cup HttpErrors \cup {[kind |-> "ok", job |-> j] : j \in JobStates} :
        R_SubmitReply(o)
R_PollReplyAny == \E o \in PollReplies : R_PollReply(o)
R_MediaReplyAny == \E o \in MediaReplies : R_MediaReply(o)
ElapseAny == \E d \in Latencies : Elapse(d)
JobAdvanceAny == \E j \in JobStates : JobAdvance(j)
F_SchemaReplyAny == \E o \in FalSchemaReplies : F_SchemaReply(o)
F_SubmitReplyAny == \E o \in FalSubmitReplies : F_SubmitReply(o)
F_MediaReplyAny == \E o \in MediaReplies : F_MediaReply(o)
G_ReplyAny == \E o \in GeminiReplies : G_Reply(o)

NextGen ==
    \/ POST_BeginAny
    \/ R_ModelReplyAny
    \/ R_SubmitReplyAny
    \/ R_Wake
    \/ R_PollReplyAny
    \/ R_MediaReplyAny
    \/ ElapseAny
    \/ JobAdvanceAny
    \/ F_SchemaReplyAny
    \/ F_SubmitReplyAny
    \/ F_MediaReplyAny
    \/ G_ReplyAny

SpecGen == Init /\ [][NextGen]_vars

\* route.ts:469: setTimeout resolves no earlier than pollInterval; here the
\* timer fires d milliseconds late
R_WakeLate(d) ==
    /\ gPc = "r_sleep"
    /\ now' = now + pollInterval + d
    /\ gAd' = [gAd EXCEPT !.polls = @ + 1]
    /\ gCalls' = Issue(gCalls, "poll")
    /\ gPc' = "r_poll"
    /\ UNCHANGED <<lookupVars, pureVars, gReq, gIn, gResp, job>>
R_WakeLateAny == \E d \in Latencies : R_WakeLate(d)

NextGenLive ==
    \/ NextGen
    \/ R_WakeLateAny

\* Every provider call of the polling adapter returns, and every sleep ends
\* (on time while the model's bound on status fetches allows it, late otherwise).
SpecGenLive ==
    /\ Init /\ [][NextGenLive]_vars
    /\ WF_vars(R_ModelReplyAny)
    /\ WF_vars(R_SubmitReplyAny)
    /\ WF_vars(R_PollReplyAny)
    /\ WF_vars(R_MediaReplyAny)
    /\ WF_vars(R_Wake \/ R_WakeLateAny)

(***************************************************************************)
(* The InputMapper applied to bounded schemas                              *)
(***************************************************************************)
PropertyUniverse ==
    {"prompt", "text", "negative_prompt", "caption_text", "Image", "seed"}

\* the lists of at most n distinct property names
RECURSIVE ListsUpTo(_)
ListsUpTo(n) ==
    IF n = 0 THEN {<<>>}
    ELSE ListsUpTo(n - 1) \cup
         {Append(q, x) : q \in {r \in ListsUpTo(n - 1) : Len(r) = n - 1},
                         x \in PropertyUniverse}

Distinct(q) == \A i, j \in 1..Len(q) : i # j => q[i] # q[j]
PropertyLists == {q \in ListsUpTo(MaxProps) : Distinct(q)}
MapperSchemas == {NoSchema, SchemaWithout} \cup {SchemaWith(q) : q \in PropertyLists}

InitMapper ==
    /\ now = 0
    /\ LookupInit
    /\ GenIdle
    /\ mProps \in MapperSchemas
    /\ mMap = <<>>
    /\ mBy = "none"
    /\ MediaIdle
    /\ ExtractIdle
    /\ CodecIdle

\* generateWithReplicate's use of the mapper (route.ts:374-375)
MapReplicate ==
    /\ mBy = "none"
    /\ mMap' = getInputMappingFromSchema(mProps)
    /\ mBy' = "replicate"
    /\ UNCHANGED <<now, lookupVars, genVars, mProps, mediaVars, extractVars, codecVars>>

\* generateWithFal's use of the mapper (route.ts:669), the document having been fetched
MapFal ==
    /\ mBy = "none"
    /\ mMap' = getFalInputMapping([kind |-> "ok", schema |-> mProps])
    /\ mBy' = "fal"
    /\ UNCHANGED <<now, lookupVars, genVars, mProps, mediaVars, extractVars, codecVars>>

NextMapper ==
    \/ MapReplicate
    \/ MapFal

SpecMapper == InitMapper /\ [][NextMapper]_vars

(***************************************************************************)
(* The MediaNormalizer of both adapters applied to the same fetched media  *)
(***************************************************************************)
\* the URL fetched, the 2xx reply to the fetch, and, for generateWithFal, whether
\* the URL was taken from result.video (route.ts:780-782)
MediaInputs ==
    {[url |-> u, kind |-> "ok", contentType |-> ct, byteLength |-> n, base64 |-> "AAAA",
      isVideoModel |-> v] :
        u \in MediaUrls, ct \in {Null, "image/png", "video/mp4"}, n \in MediaSizes,
        v \in BOOLEAN}

InitMedia ==
    /\ now = 0
    /\ LookupInit
    /\ GenIdle
    /\ MapperIdle
    /\ mdIn \in MediaInputs
    /\ mdR = <<>>
    /\ mdF = <<>>
    /\ ExtractIdle
    /\ CodecIdle

\* route.ts:538-578
NormalizeReplicate ==
    /\ mdR = <<>>
    /\ mdR' = ReplicateOutput(mdIn.url, mdIn).outputs
    /\ UNCHANGED <<now, lookupVars, genVars, mapperVars, extractVars, codecVars, mdIn, mdF>>

\* route.ts:812-852
NormalizeFal ==
    /\ mdF = <<>>
    /\ mdF' = FalOutput(mdIn.url, mdIn.isVideoModel, mdIn).outputs
    /\ UNCHANGED <<now, lookupVars, genVars, mapperVars, extractVars, codecVars, mdIn, mdR>>

NextMedia ==
    \/ NormalizeReplicate
    \/ NormalizeFal

SpecMedia == InitMedia /\ [][NextMedia]_vars

(***************************************************************************)
(* The SchemaExtractor applied to bounded schemas                          *)
(***************************************************************************)
ExtractNames ==
    {"seed", "width", "height", "aspect_ratio", "go_fast", "image_url", "mask_image", "Image",
     "prompt", "negative_prompt"}

\* the declarations tried: untyped, each declared type, a direct enum, and
\* compositions of references with and without a direct enum
PropertyShapes ==
    {Property(Null, <<>>, Null, Null, NoNumber, NoNumber, NoEnum),
     Property("string", <<>>, "A string", "x", NoNumber, NoNumber, Enum(<<"x", "y">>)),
     Property("integer", <<>>, "An integer", "1", Number(0), Number(100), NoEnum),
     Property("number", <<>>, Null, Null, Number(0), NoNumber, NoEnum),
     Property("boolean", <<>>, "", "false", NoNumber, NoNumber, NoEnum),
     Property("array", <<>>, Null, Null, NoNumber, NoNumber, NoEnum),
     Property(Null, <<RefItem("#/components/schemas/AspectRatio"),
                      RefItem("#/components/schemas/Quality")>>,
              Null, Null, NoNumber, NoNumber, NoEnum),
     Property(Null, <<RefItem("#/components/schemas/Steps"),
                      RefItem("#/definitions/Quality"),
                      EnumItem(<<"a", "b">>),
                      RefItem("#/components/schemas/AspectRatio")>>,
              Null, Null, NoNumber, NoNumber, Enum(<<"direct">>)),
     Property(Null, <<RefItem("#/definitions/Quality"),
                      RefItem("#/components/schemas/Steps"),
                      RefItem("#/components/schemas/Quality")>>,
              Null, Null, NoNumber, NoNumber, NoEnum),
     Property(Null, <<RefItem("#/components/schemas/Missing"), EnumItem(<<"a", "b">>)>>,
              "Composed", Null, NoNumber, NoNumber, NoEnum)}

\* the lists of at most n distinct names of ExtractNames
RECURSIVE NameListsUpTo(_)
NameListsUpTo(n) ==
    IF n = 0 THEN {<<>>}
    ELSE NameListsUpTo(n - 1) \cup
         {Append(q, x) : q \in {r \in NameListsUpTo(n - 1) : Len(r) = n - 1}, x \in ExtractNames}
NameLists == {q \in NameListsUpTo(MaxSchemaProps) : Distinct(q)}

\* the names at the odd positions of a list
OddPositions(q) == SelectSeq([i \in 1..Len(q) |-> IF i % 2 = 1 THEN q[i] ELSE Null],
                             LAMBDA x : x # Null)

\* the requiredness patterns tried for a list of names: none, the first, every other one
RequiredLists(q) ==
    {<<>>, OddPositions(q)} \cup (IF Len(q) > 0 THEN {<<q[1]>>} ELSE {})

\* every order of up to MaxSchemaProps plainly declared names, and every
\* declaration for the schemas of one or two names
ExtractInputs ==
    {[hasProperties |-> FALSE, properties |-> <<>>, required |-> <<>>, hasComponents |-> TRUE]}
    \cup UNION {{InputSchema(q, PlainShape, rq, TRUE) : rq \in RequiredLists(q)} : q \in NameLists}
    \cup UNION {{InputSchema(q, sh, rq, TRUE) : rq \in RequiredLists(q), sh \in PropertyShapes} :
                  q \in {r \in NameLists : Len(r) <= 2}}
    \cup {InputSchema(<<x, "seed">>, sh, <<x>>, TRUE) : x \in EXCLUDED_PARAMS, sh \in PropertyShapes}
    \cup {InputSchema(q, sh, <<>>, FALSE) :
            q \in {r \in NameLists : Len(r) = 1}, sh \in {x \in PropertyShapes : Len(x.allOf) > 0}}

InitExtract ==
    /\ now = 0
    /\ LookupInit
    /\ GenIdle
    /\ MapperIdle
    /\ MediaIdle
    /\ CodecIdle
    /\ exIn \in ExtractInputs
    /\ exOut = [done |-> FALSE, runs |-> 0, parameters |-> <<>>, inputs |-> <<>>]

\* route.ts:268 and 341: the fetcher hands the input schema to the extractor
Extract ==
    /\ exOut.runs < MaxExtractions
    /\ LET extracted == extractParametersFromSchema(exIn)
       IN  exOut' = [done |-> TRUE, runs |-> exOut.runs + 1,
                     parameters |-> extracted.parameters, inputs |-> extracted.inputs]
    /\ UNCHANGED <<now, lookupVars, genVars, mapperVars, mediaVars, codecVars, exIn>>

NextExtract == Extract

SpecExtract == InitExtract /\ [][NextExtract]_vars

(***************************************************************************)
(* The media round trip: the data URI an adapter builds                    *)
(* (generate/route.ts:538-578) and the save route that decodes it          *)
(* (components/WorkflowCanvas.tsx:473-575)                                 *)
(***************************************************************************)
Base64Alphabet == "ABCDEFGHIJKLMNOPQRSTUVWXYZabcdefghijklmnopqrstuvwxyz0123456789+/"
Base64Char(v) == SubSeq(Base64Alphabet, v + 1, v + 1)

\* Buffer.prototype.toString("base64")
RECURSIVE toBase64(_)
toBase64(bytes) ==
    IF Len(bytes) = 0 THEN ""
    ELSE IF Len(bytes) = 1
    THEN Base64Char(bytes[1] \div 4) \o Base64Char((bytes[1] % 4) * 16) \o "=="
    ELSE IF Len(bytes) = 2
    THEN Base64Char(bytes[1] \div 4)
         \o Base64Char((bytes[1] % 4) * 16 + bytes[2] \div 16)
         \o Base64Char((bytes[2] % 16) * 4) \o "="
    ELSE Base64Char(bytes[1] \div 4)
         \o Base64Char((bytes[1] % 4) * 16 + bytes[2] \div 16)
         \o Base64Char((bytes[2] % 16) * 4 + bytes[3] \div 64)
         \o Base64Char(bytes[3] % 64)
         \o toBase64(SubSeq(bytes, 4, Len(bytes)))

\* the value of a character of the base64 or base64url alphabet, -1 for any other
Base64Value(c) ==
    IF c = "-" THEN 62
    ELSE IF c = "_" THEN 63
    ELSE IF \E i \in 1..64 : SubSeq(Base64Alphabet, i, i) = c
    THEN (CHOOSE i \in 1..64 : SubSeq(Base64Alphabet, i, i) = c) - 1
    ELSE -1

\* the values of the characters of s; the decoder skips every other character
RECURSIVE Base64Values(_)
Base64Values(s) ==
    IF Len(s) = 0 THEN <<>>
    ELSE (IF Base64Value(SubSeq(s, 1, 1)) >= 0 THEN <<Base64Value(SubSeq(s, 1, 1))>> ELSE <<>>)
         \o Base64Values(SubSeq(s, 2, Len(s)))

RECURSIVE BytesOfValues(_)
BytesOfValues(v) ==
    IF Len(v) < 2 THEN <<>>
    ELSE IF Len(v) = 2 THEN <<v[1] * 4 + v[2] \div 16>>
    ELSE IF Len(v) = 3 THEN <<v[1] * 4 + v[2] \div 16, (v[2] % 16) * 16 + v[3] \div 4>>
    ELSE <<v[1] * 4 + v[2] \div 16, (v[2] % 16) * 16 + v[3] \div 4, (v[3] % 4) * 64 + v[4]>>
         \o BytesOfValues(SubSeq(v, 5, Len(v)))

\* Buffer.from(s, "base64")
fromBase64(s) == BytesOfValues(Base64Values(s))

\* generate/route.ts:539 and 569-576: the data URI of the fetched medium
EncodeMedia(bytes, header) ==
    LET contentType == IF Truthy(header) THEN header ELSE "image/png"
    IN  "data:" \o contentType \o ";base64," \o toBase64(bytes)

\* WorkflowCanvas.tsx:473-485
getExtensionFromMime(mimeType) ==
    CASE mimeType = "image/png" -> "png"
      [] mimeType = "image/jpeg" -> "jpg"
      [] mimeType = "image/gif" -> "gif"
      [] mimeType = "image/webp" -> "webp"
      [] mimeType = "video/mp4" -> "mp4"
      [] mimeType = "video/webm" -> "webm"
      [] mimeType = "video/quicktime" -> "mov"
      [] OTHER -> "mp4"

\* the position of the first ";" of s, 0 if there is none
FirstSemicolon(s) ==
    IF \E i \in 1..Len(s) : SubSeq(s, i, i) = ";"
    THEN CHOOSE i \in 1..Len(s) :
            SubSeq(s, i, i) = ";" /\ \A j \in 1..(i - 1) : SubSeq(s, j, j) # ";"
    ELSE 0

\* WorkflowCanvas.tsx:564  content.match(/^data:([\w/+-]+);base64,/): the
\* length of the match and its group, 0 and "" when there is no match
DataUrlMatch(content) ==
    LET p == FirstSemicolon(content)
        mime == SubSeq(content, 6, p - 1)
        matches ==
            /\ StartsWith(content, "data:")
            /\ p > 6
            /\ \A i \in 1..Len(mime) :
                  IsWordChar(SubSeq(mime, i, i)) \/ SubSeq(mime, i, i) \in {"/", "+", "-"}
            /\ StartsWith(SubSeq(content, p, Len(content)), ";base64,")
    IN  IF matches THEN [length |-> p + 7, mimeType |-> mime]
        ELSE [length |-> 0, mimeType |-> ""]

\* WorkflowCanvas.tsx:562-575: the buffer and the extension of the saved file
DecodeContent(content, isVideo) ==
    LET dataUrlMatch == DataUrlMatch(content) IN
    IF dataUrlMatch.length > 0
    THEN [done |-> TRUE,
          bytes |-> fromBase64(SubSeq(content, dataUrlMatch.length + 1, Len(content))),
          extension |-> getExtensionFromMime(dataUrlMatch.mimeType)]
    ELSE [done |-> TRUE, bytes |-> fromBase64(content),
          extension |-> IF isVideo THEN "mp4" ELSE "png"]

\* the byte values tried, and the buffers of at most n of them
ByteValues == {0, 65, 255}
RECURSIVE BuffersUpTo(_)
BuffersUpTo(n) ==
    IF n = 0 THEN {<<>>}
    ELSE BuffersUpTo(n - 1) \cup
         {Append(q, b) : q \in {r \in BuffersUpTo(n - 1) : Len(r) = n - 1}, b \in ByteValues}

\* the content-type headers the media fetch is answered with; Null: no header
ContentTypes ==
    {Null, "image/png", "image/svg+xml", "video/mp4", "video/mp4; codecs=avc1",
     "application/vnd.apple.mpegurl"}

InitCodec ==
    /\ now = 0
    /\ LookupInit
    /\ GenIdle
    /\ MapperIdle
    /\ MediaIdle
    /\ ExtractIdle
    /\ rtIn \in {[bytes |-> b, contentType |-> c] : b \in BuffersUpTo(MaxBytes), c \in ContentTypes}
    /\ rtUri = ""
    /\ rtOut = [done |-> FALSE, bytes |-> <<>>, extension |-> ""]

\* the adapter returns the fetched medium as a data URI
Encode ==
    /\ rtUri = ""
    /\ rtUri' = EncodeMedia(rtIn.bytes, rtIn.contentType)
    /\ UNCHANGED <<now, lookupVars, genVars, mapperVars, mediaVars, extractVars, rtIn, rtOut>>

\* the save route receives that data URI as image or video and decodes it
Decode ==
    /\ rtUri # "" /\ ~rtOut.done
    /\ rtOut' = DecodeContent(rtUri, StartsWith(rtUri, "data:video/"))
    /\ UNCHANGED <<now, lookupVars, genVars, mapperVars, mediaVars, extractVars, rtIn, rtUri>>

NextCodec == Encode \/ Decode

SpecCodec == InitCodec /\ [][NextCodec]_vars

(***************************************************************************)
(* Properties of the schema lookup                                         *)
(***************************************************************************)
IsHit(r) == r.status = 200 /\ r.cached
IsFetched(r) == r.status = 200 /\ ~r.cached
SameSchema(r, e) == r.parameters = e.parameters /\ r.inputs = e.inputs

\* the step in which GET request l runs from its entry to its first await or return
Begins(l) == lk[l].pc \in {"idle", "done"} /\ (lk'[l] # lk[l] \/ lkResp'[l] # lkResp[l])
\* the step in which the fetcher of GET request l returns
FetchReturns(l) == lk[l].pc = "fetching" /\ lk'[l].pc = "done"
KeyedLookup(l) == lk'[l].key \in CacheKeys

\* C1 (as claimed): a response is served from the cache only if an entry for
\* the same key exists with now - timestamp < TTL, and every lookup that finds
\* no entry or an expired one makes a fresh fetch attempt.
C1_Original ==
    [][\A l \in LookupIds : Begins(l) =>
          /\ IsHit(lkResp'[l]) =>
                /\ schemaCache[lk'[l].key].present
                /\ now - schemaCache[lk'[l].key].timestamp < 10 * 60 * 1000
                /\ SameSchema(lkResp'[l], schemaCache[lk'[l].key])
          /\ (KeyedLookup(l) /\ ~(/\ schemaCache[lk'[l].key].present
                                  /\ now - schemaCache[lk'[l].key].timestamp < 10 * 60 * 1000))
                => lk'[l].pc = "fetching" /\ lk'[l].fetches = 1]_vars

\* C1 (amended): a response is served from the cache only if an entry for the
\* same key exists with now - timestamp < TTL; a lookup that finds no entry or
\* an expired one never answers from the cache: it makes a fresh fetch attempt,
\* except a replicate lookup without credential, which is answered 401 without
\* any fetch.
C1_Amended ==
    [][\A l \in LookupIds : Begins(l) =>
          /\ IsHit(lkResp'[l]) =>
                /\ schemaCache[lk'[l].key].present
                /\ now - schemaCache[lk'[l].key].timestamp < 10 * 60 * 1000
                /\ SameSchema(lkResp'[l], schemaCache[lk'[l].key])
          /\ (KeyedLookup(l) /\ ~(/\ schemaCache[lk'[l].key].present
                                  /\ now - schemaCache[lk'[l].key].timestamp < 10 * 60 * 1000))
                => \/ lk'[l].pc = "fetching" /\ lk'[l].fetches = 1
                   \/ /\ lk'[l].provider = "replicate" /\ ~lk'[l].hasKey
                      /\ lkResp'[l].status = 401 /\ lk'[l].fetches = 0]_vars

\* a hit has been served while another lookup refetches an expired entry
C1_Witness ==
    \E l1, l2 \in LookupIds :
        /\ IsHit(lkResp[l1])
        /\ lk[l2].pc = "fetching"
        /\ schemaCache[lk[l2].key].present
        /\ now - schemaCache[lk[l2].key].timestamp >= CACHE_TTL

\* C2 (as claimed): once a lookup for a key has fetched and returned, every
\* later lookup for the key within the TTL returns cached: true with that first
\* call's parameters and inputs and fetches nothing; the first lookup after the
\* TTL refetches and returns cached: false.
C2_Original ==
    [][\A l \in LookupIds :
          /\ (Begins(l) /\ KeyedLookup(l) /\ firstFetch[lk'[l].key].present) =>
                IF now - firstFetch[lk'[l].key].timestamp < CACHE_TTL
                THEN /\ IsHit(lkResp'[l])
                     /\ SameSchema(lkResp'[l], firstFetch[lk'[l].key])
                     /\ lk'[l].fetches = 0
                ELSE lk'[l].pc = "fetching"
          /\ (FetchReturns(l) /\ firstFetch[lk[l].key].present) => IsFetched(lkResp'[l])]_vars

\* C2 (amended): every lookup begun while the entry stored for its key is
\* younger than the TTL returns cached: true with the parameters and inputs of
\* that entry (those of the latest fetch completed for the key) and fetches
\* nothing; a lookup begun when the entry is absent or at least TTL old is not
\* answered from the cache: it refetches, answering cached: false with the
\* fetched schema (which replaces the entry), or 500 when the fetch throws,
\* or, for replicate without credential, 401 without fetching.
C2_Amended ==
    [][\A l \in LookupIds :
          /\ (Begins(l) /\ KeyedLookup(l)) =>
                IF /\ schemaCache[lk'[l].key].present
                   /\ now - schemaCache[lk'[l].key].timestamp < 10 * 60 * 1000
                THEN /\ IsHit(lkResp'[l])
                     /\ SameSchema(lkResp'[l], schemaCache[lk'[l].key])
                     /\ lk'[l].fetches = 0 /\ lk'[l].pc = "done"
                     /\ schemaCache' = schemaCache
                ELSE \/ lk'[l].pc = "fetching" /\ lk'[l].fetches = 1
                     \/ /\ lk'[l].provider = "replicate" /\ ~lk'[l].hasKey
                        /\ lkResp'[l].status = 401 /\ lk'[l].fetches = 0
          /\ FetchReturns(l) =>
                \/ /\ IsFetched(lkResp'[l])
                   /\ schemaCache'[lk[l].key].present
                   /\ schemaCache'[lk[l].key].timestamp = now
                   /\ SameSchema(lkResp'[l], schemaCache'[lk[l].key])
                \/ lkResp'[l].status = 500 /\ schemaCache' = schemaCache]_vars

\* a lookup was answered from the cache and, the TTL having elapsed, a later
\* lookup for the same key has refetched and got cached: false
C2_Witness ==
    \E l1, l2 \in LookupIds :
        /\ IsHit(lkResp[l1])
        /\ lk[l2].pc = "done" /\ lk[l2].key = lk[l1].key
        /\ IsFetched(lkResp[l2])
        /\ schemaCache[lk[l2].key].timestamp >= CACHE_TTL

\* C8 (as claimed): every replicate lookup without credential header is
\* answered 401, whatever the cache holds.
C8_Claim ==
    \A l \in LookupIds :
        (lk[l].pc = "done" /\ lk[l].provider = "replicate" /\ ~lk[l].hasKey)
            => lkResp[l].status = 401

(***************************************************************************)
(* Properties of the generation endpoint (SpecGen)                         *)
(***************************************************************************)
IsTimeout(resp) == resp.status = 500 /\ resp.error = TimeoutError(gIn.name)
PollingStarted == gAd.startTime # -1
Elapsed == now - gAd.startTime
NonTerminal(status) == status \in {"starting", "processing"}
LastCall == gCalls[Len(gCalls)]
CallsOf(kind) == {i \in 1..Len(gCalls) : gCalls[i].kind = kind}
FailedResponse == gPc = "done" /\ gResp.status >= 400

\* C3 (as claimed): a polled job that has not reached a terminal status by the
\* time 5 minutes have elapsed since the start of polling yields the timeout
\* error naming the model, whatever the job reports afterwards.
C3_Original ==
    (/\ gPc = "done" /\ PollingStarted
     /\ Elapsed > maxWaitTime
     /\ (job.terminalAt = -1 \/ job.terminalAt - gAd.startTime > maxWaitTime))
        => IsTimeout(gResp)

\* C3 (amended): the ceiling is examined only at the top of a loop iteration,
\* when the last fetched status is non-terminal: the adapter sleeps and fetches
\* again only if at most 5 minutes have elapsed since the start of polling, and
\* answers with the timeout error naming the model exactly when the last
\* fetched status is non-terminal and more than 5 minutes have elapsed. A
\* status fetch in flight when the ceiling elapses is honoured: a terminal
\* status it reports, or its failure, decides the response, not the timeout.
C3_Amended ==
    /\ gPc = "r_sleep" => NonTerminal(gAd.status) /\ Elapsed <= 5 * 60 * 1000
    /\ (gPc = "done" /\ PollingStarted) =>
          (IsTimeout(gResp) <=>
              /\ NonTerminal(gAd.status)
              /\ NonTerminal(LastCall.reply)
              /\ Elapsed > 5 * 60 * 1000)

\* the request timed out after a status fetch that was in flight when the
\* ceiling elapsed reported a non-terminal status
C3_Witness ==
    /\ gPc = "done" /\ PollingStarted
    /\ IsTimeout(gResp)
    /\ LastCall.kind = "poll" /\ LastCall.reply = "processing"

\* the call that may follow a call whose reply is known; schemaReplies are the
\* replies to the synchronous provider's schema fetch after which it submits
MayFollow(provider, prev, next, schemaReplies) ==
    IF provider = "replicate"
    THEN \/ prev.kind = "model_info" /\ prev.reply = "ok" /\ next.kind = "submit"
         \/ prev.kind \in {"submit", "poll"} /\ prev.reply \in {"starting", "processing"}
                /\ next.kind = "poll"
         \/ prev.kind \in {"submit", "poll"} /\ prev.reply = "succeeded" /\ next.kind = "media"
    ELSE IF provider = "fal"
    THEN \/ prev.kind = "schema" /\ prev.reply \in schemaReplies /\ next.kind = "submit"
         \/ prev.kind = "submit" /\ prev.reply = "ok" /\ next.kind = "media"
    ELSE FALSE

FirstCallKinds(provider) ==
    IF provider = "replicate" THEN {"model_info"}
    ELSE IF provider = "fal" THEN {"schema", "submit"}
    ELSE {"generateContent"}

Sequential(schemaReplies) ==
    /\ gCalls # <<>> => gCalls[1].kind \in FirstCallKinds(ProviderOf(gReq))
    /\ \A i \in 1..(Len(gCalls) - 1) :
          MayFollow(ProviderOf(gReq), gCalls[i], gCalls[i + 1], schemaReplies)
    /\ (CallsOf("media") # {}) => Truthy(gAd.mediaUrl)
    /\ (gPc = "done" /\ gCalls # <<>>) => LastCall.reply # "pending"

\* C4 (as claimed): the calls of one request are issued in the order model-info
\* or schema fetch, submission, status polls, media fetch, each only after the
\* reply to the previous one is known, and none after a failed step; for the
\* synchronous provider too, so that its submission follows only a schema
\* fetch that succeeded.
C4_Original == Sequential({"ok"})

\* C4 (amended): as claimed, except that the synchronous provider's optional
\* schema fetch never ends the request: whether it succeeds, is answered
\* non-2xx or throws (the mapping is then empty), the submission follows.
C4_Amended == Sequential({"ok", "http_error", "throw"})

\* an asynchronous request went through model info, submission, two status
\* fetches and the media fetch, which failed
C4_Witness ==
    /\ gPc = "done" /\ ProviderOf(gReq) = "replicate"
    /\ Len(gCalls) = 5
    /\ gCalls[3].reply = "starting" /\ gCalls[4].reply = "succeeded"
    /\ gCalls[5].kind = "media" /\ gCalls[5].reply = "http_error"
    /\ gResp.status = 500

\* C5: no provider call is retried: a non-2xx reply to the model-info fetch, the
\* submission, a status fetch or the media fetch is the last call of the request
\* and the request is answered with a failure; the submission, the model-info
\* fetch and the media fetch are each sent at most once.
C5_NoRetry ==
    /\ \A kind \in {"model_info", "submit", "media"} : Cardinality(CallsOf(kind)) <= 1
    /\ \A i \in 1..Len(gCalls) :
          (/\ gCalls[i].kind \in {"model_info", "submit", "poll", "media"}
           /\ gCalls[i].reply \in {"http_error", "http_429"})
              => i = Len(gCalls) /\ FailedResponse

\* a status fetch was answered non-2xx after an earlier one had succeeded, and
\* the request has failed
C5_Witness ==
    /\ gPc = "done" /\ Len(gCalls) = 4
    /\ gCalls[3].kind = "poll" /\ gCalls[3].reply = "processing"
    /\ gCalls[4].kind = "poll" /\ gCalls[4].reply = "http_error"
    /\ gResp.status = 500

\* C6 (as claimed): when the provider answers the submission with HTTP 429, the
\* response to the caller has status 429.
C6_Claim ==
    (/\ gPc = "done"
     /\ \E i \in CallsOf("submit") : gCalls[i].reply = "http_429")
        => gResp.status = 429

\* C7 (as claimed): a request with valid content for a provider that requires a
\* credential (replicate, and the SDK provider that serves every request whose
\* model names neither replicate nor fal), sent without that credential, is
\* answered 401 and no provider call is made.
C7_Claim ==
    (/\ gPc = "done" /\ gReq.bodyOk /\ ContentValid(gReq)
     /\ ProviderOf(gReq) # "fal"
     /\ ~gReq.hasKey)
        => gResp.status = 401 /\ gCalls = <<>>

\* the entries of the caller's dynamicInputs that are neither null nor ''
KeptInputs == {k \in DOMAIN gReq.dynamicInputs.map : gReq.dynamicInputs.map[k] \notin {Null, ""}}

\* path (a): the first call is the submission, and the payload is the
\* parameters overlaid with the kept entries of dynamicInputs
ExplicitPath ==
    /\ gCalls[1].kind = "submit"
    /\ DOMAIN gAd.payload = KeptInputs \cup {gReq.parameters[i][1] : i \in 1..Len(gReq.parameters)}
    /\ \A k \in KeptInputs : gAd.payload[k] = gReq.dynamicInputs.map[k]
    /\ \A k \in DOMAIN gAd.payload \ KeptInputs :
          \E i \in 1..Len(gReq.parameters) : gReq.parameters[i] = <<k, gAd.payload[k]>>

\* path (b): the schema is fetched first, and the submitted payload carries the
\* generic prompt
HeuristicPath ==
    /\ gCalls[1].kind = "schema"
    /\ (Len(gCalls) >= 2 /\ gReq.prompt # "") =>
          \E k \in DOMAIN gAd.payload : gAd.payload[k] = gReq.prompt

FalStarted == gReq.bodyOk /\ ProviderOf(gReq) = "fal" /\ gCalls # <<>>

\* C9 (as claimed): whenever the caller supplies a dynamicInputs map, the
\* payload is that map without its null and '' entries merged over the
\* parameters and no schema is fetched; the heuristic path is used only when no
\* map is supplied.
C9_Original ==
    FalStarted => IF gReq.dynamicInputs.given THEN ExplicitPath ELSE HeuristicPath

\* C9 (amended): path (a) is taken exactly when the supplied map has at least
\* one entry that is neither null nor ''; a map that is empty, or whose every
\* entry is null or '', is treated as absent: the schema is fetched and the
\* generic prompt and image are placed by the heuristic mapping.
C9_Amended ==
    FalStarted => IF gReq.dynamicInputs.given /\ KeptInputs # {}
                  THEN ExplicitPath ELSE HeuristicPath

\* a map with one '' entry and one image overrides the parameter of the same
\* name, and the submission is the first call
C9_Witness ==
    /\ gPc = "f_submit" /\ Len(gCalls) = 1
    /\ gReq.dynamicInputs = Dyn([prompt |-> "", image_url |-> DataUri])
    /\ gReq.prompt = "a cat" /\ gReq.parameters # <<>>
    /\ gAd.payload = [seed |-> "7", image_url |-> DataUri]

(***************************************************************************)
(* Properties of the InputMapper (SpecMapper)                              *)
(***************************************************************************)
\* the candidates of a generic name that are declared property names
ExactCandidates(g) ==
    {i \in 1..Len(INPUT_PATTERNS[g]) : INPUT_PATTERNS[g][i] \in SeqToSet(mProps.properties)}

\* C10 (as claimed): a generic name with a candidate that is a declared
\* property name resolves to the first such candidate in candidate order;
\* substring matches are used only for generic names without one.
C10_Claim ==
    (mBy # "none" /\ mProps.hasProperties) =>
        \A g \in GenericNames :
            ExactCandidates(g) # {} =>
                /\ g \in DOMAIN mMap
                /\ \E i \in ExactCandidates(g) :
                      /\ mMap[g] = INPUT_PATTERNS[g][i]
                      /\ \A j \in ExactCandidates(g) : i <= j

\* letter case aside, one of the two strings contains the other
Related(n, c) ==
    \/ Includes(toLowerCase(n), toLowerCase(c))
    \/ Includes(toLowerCase(c), toLowerCase(n))

\* the declared properties that stand in the substring relation with a candidate of g
RelatedProperties(g) ==
    {n \in SeqToSet(mProps.properties) :
        \E i \in 1..Len(INPUT_PATTERNS[g]) : Related(n, INPUT_PATTERNS[g][i])}

\* C11: a generic name none of whose candidates is a declared property, while
\* some declared property contains one of its candidates (letter case aside),
\* is resolved, not left absent: to a declared property in the substring
\* relation with a candidate, which is that property when it is the only one.
\* Both copies of the mapper give this result.
C11_SubstringFallback ==
    (mBy # "none" /\ mProps.hasProperties) =>
        \A g \in GenericNames :
            (/\ ExactCandidates(g) = {}
             /\ \E n \in SeqToSet(mProps.properties) : \E i \in 1..Len(INPUT_PATTERNS[g]) :
                    Includes(toLowerCase(n), toLowerCase(INPUT_PATTERNS[g][i])))
                => /\ g \in DOMAIN mMap
                   /\ mMap[g] \in RelatedProperties(g)

\* the schema declares only caption_text and prompt is resolved to it
C11_Witness ==
    /\ mBy # "none"
    /\ mProps = SchemaWith(<<"caption_text">>)
    /\ mMap = [prompt |-> "caption_text"]

\* C38: the InputMapper's result is injective: for every declared property
\* set, no two different generic names are mapped to the same property name.
C38_Injective ==
    mBy # "none" =>
        \A g1, g2 \in DOMAIN mMap : g1 # g2 => mMap[g1] # mMap[g2]

(***************************************************************************)
(* Properties of the MediaNormalizer (SpecMedia)                           *)
(***************************************************************************)
\* the output record out is as C12 says for the fetched media mdIn
NormalizedAsClaimed(out) ==
    /\ out.url = mdIn.url
    /\ out.type \in {"image", "video"}
    /\ (out.data = mdIn.url) <=> (out.type = "video" /\ mdIn.byteLength > 20 * 1024 * 1024)
    /\ (out.data # mdIn.url) =>
          \E ct \in {"image/png", "video/mp4"} :
              /\ out.data = "data:" \o ct \o ";base64," \o mdIn.base64
              /\ mdIn.contentType # Null => ct = mdIn.contentType
              /\ StartsWith(ct, "video/") => out.type = "video"

\* C12: the record's data is the remote URL verbatim exactly when the output is
\* classified as video and its byte length exceeds 20 MiB; otherwise data is a
\* data: URI whose content type is the one the classification used (the
\* declared one when there is one), and url is always the remote URL. In both
\* adapters.
C12_MediaSizing ==
    /\ mdR # <<>> => Len(mdR) = 1 /\ NormalizedAsClaimed(mdR[1])
    /\ mdF # <<>> => Len(mdF) = 1 /\ NormalizedAsClaimed(mdF[1])

\* a video one byte over the threshold was returned as its URL by both adapters
C12_Witness ==
    /\ mdIn.contentType = "video/mp4" /\ mdIn.byteLength = 20 * 1024 * 1024 + 1
    /\ mdR # <<>> /\ mdR[1].data = mdIn.url
    /\ mdF # <<>> /\ mdF[1].data = mdIn.url

\* C13 (as claimed): for the same URL, declared content type and byte length
\* both adapters produce the same output record.
C13_Claim ==
    (mdR # <<>> /\ mdF # <<>>) => mdR = mdF

(***************************************************************************)
(* Further properties of the generation endpoint (SpecGen)                 *)
(***************************************************************************)
\* the number of media fields a success carries
MediaFields(resp) ==
    Cardinality({f \in {"image", "video", "videoUrl"} :
        \/ f = "image" /\ Truthy(resp.image)
        \/ f = "video" /\ Truthy(resp.video)
        \/ f = "videoUrl" /\ Truthy(resp.videoUrl)})

\* C14 (as claimed): every response is a success carrying contentType and
\* exactly one of image, video (a data: URI) and videoUrl (the bare remote URL
\* the adapter returned for a video), or a failure with a non-empty error and a
\* status among 400, 401, 429 and 500.
C14_Claim ==
    gPc = "done" =>
        IF gResp.success
        THEN /\ Truthy(gResp.contentType)
             /\ MediaFields(gResp) = 1
             /\ Truthy(gResp.video) => StartsWith(gResp.video, "data:")
             /\ Truthy(gResp.videoUrl) =>
                    gResp.videoUrl = gAd.mediaUrl /\ gResp.contentType = "video"
        ELSE /\ Truthy(gResp.error)
             /\ gResp.status \in {400, 401, 429, 500}

\* the request carries a prompt, top-level or as a dynamic input
CarriesPrompt(req) ==
    \/ Truthy(req.prompt)
    \/ /\ req.dynamicInputs.given
       /\ "prompt" \in DOMAIN req.dynamicInputs.map
       /\ Truthy(req.dynamicInputs.map["prompt"])

\* the request carries image content: top-level images, or a dynamic input
\* named as an image or a frame with a non-empty value
CarriesImage(req) ==
    \/ Len(req.images) > 0
    \/ /\ req.dynamicInputs.given
       /\ \E k \in DOMAIN req.dynamicInputs.map :
             /\ Includes(k, "frame") \/ Includes(k, "image")
             /\ Truthy(req.dynamicInputs.map[k])

\* C15 (as claimed): a request with neither prompt nor image content is
\* answered 400 and no provider is called.
C15_Claim ==
    (gPc # "idle" /\ gReq.bodyOk /\ ~CarriesPrompt(gReq) /\ ~CarriesImage(gReq))
        => gPc = "done" /\ gResp.status = 400 /\ gCalls = <<>>

(***************************************************************************)
(* Further properties of the schema lookup (Spec)                          *)
(***************************************************************************)
\* C16: under every interleaving of the lookups, the cache changes only when a
\* fetch completes successfully, and then the entry of that lookup's key
\* becomes, as a whole, the parameters and inputs that fetch returned with the
\* time of the store, keeping nothing of the entry it replaces; a hit returns
\* the parameters and inputs of one such entry; a lookup that misses starts its
\* own fetch even while another lookup is fetching the same key.
C16_WholeEntries ==
    [][/\ \A l \in LookupIds :
            /\ (FetchReturns(l) /\ IsFetched(lkResp'[l])) =>
                  schemaCache' = [schemaCache EXCEPT ![lk[l].key] =
                      [present |-> TRUE, parameters |-> lkResp'[l].parameters,
                       inputs |-> lkResp'[l].inputs, timestamp |-> now]]
            /\ (FetchReturns(l) /\ ~IsFetched(lkResp'[l])) => schemaCache' = schemaCache
            /\ (Begins(l) /\ IsHit(lkResp'[l])) =>
                  SameSchema(lkResp'[l], schemaCache[lk'[l].key])
            /\ (/\ Begins(l) /\ KeyedLookup(l)
                /\ ~(/\ schemaCache[lk'[l].key].present
                     /\ now - schemaCache[lk'[l].key].timestamp < 10 * 60 * 1000)
                /\ (lk'[l].provider = "replicate" => lk'[l].hasKey))
                  => lk'[l].pc = "fetching" /\ lk'[l].fetches = 1
       /\ (\A l \in LookupIds : ~FetchReturns(l)) => schemaCache' = schemaCache]_vars

\* two lookups missed on the same key and fetched concurrently: one has just
\* stored its result over an entry stored earlier, the other is still fetching
C16_Witness ==
    \E l1, l2 \in LookupIds :
        /\ l1 # l2 /\ lk[l1].key = lk[l2].key
        /\ lk[l1].pc = "fetching"
        /\ lk[l2].pc = "done" /\ IsFetched(lkResp[l2])
        /\ schemaCache[lk[l2].key].present
        /\ schemaCache[lk[l2].key].timestamp = now /\ now > 0
        /\ SameSchema(lkResp[l2], schemaCache[lk[l2].key])

(***************************************************************************)
(* Properties of the terminal job states (SpecGen)                         *)
(***************************************************************************)
\* the polled job was last seen in the given terminal status
JobSeen(status) == gPc # "idle" /\ PollingStarted /\ gAd.status = status

\* C17: a job seen failed ends the request with a failure carrying the
\* provider's stated reason (or "Prediction failed" when it states none), a job
\* seen canceled ends it with a different failure, and in both cases the job's
\* output is not read and no media fetch is issued.
C17_TerminalFailures ==
    /\ JobSeen("failed") =>
          /\ gPc = "done" /\ gResp.status = 500
          /\ gResp.error = gIn.name \o ": " \o
                (IF gAd.error \notin {Null, ""} THEN gAd.error ELSE "Prediction failed")
          /\ CallsOf("media") = {} /\ gAd.mediaUrl = Null
    /\ JobSeen("canceled") =>
          /\ gPc = "done" /\ gResp.status = 500
          /\ gResp.error = "Prediction was canceled"
          /\ CallsOf("media") = {} /\ gAd.mediaUrl = Null

\* a job that was canceled after a status fetch, with an output URL present,
\* has ended the request without a media fetch
C17_Witness ==
    /\ JobSeen("canceled") /\ gPc = "done"
    /\ gAd.output = SingleOutput("https://cdn.example/out.png")
    /\ LastCall.kind = "poll" /\ LastCall.reply = "canceled"

\* C18 (as claimed): a non-2xx reply to the submission, a failed job and a
\* canceled job each give status 500 with an error message that begins with the
\* model's display name.
C18_Claim ==
    (/\ gPc = "done"
     /\ \/ \E i \in CallsOf("submit") : gCalls[i].reply \in {"http_error", "http_429"}
        \/ JobSeen("failed")
        \/ JobSeen("canceled"))
        => gResp.status = 500 /\ StartsWith(gResp.error, gIn.name \o ": ")

(***************************************************************************)
(* Properties of the SchemaExtractor (SpecExtract)                         *)
(***************************************************************************)
DeclaredNames == {exIn.properties[i].name : i \in 1..Len(exIn.properties)}
ParameterNames == {exOut.parameters[i].name : i \in 1..Len(exOut.parameters)}
ImageInputNames ==
    {exOut.inputs[i].name : i \in {j \in 1..Len(exOut.inputs) : exOut.inputs[j].type = "image"}}

\* C19: whatever the schema declares for it (no type, any of the declared
\* types, an enum, composed references), a property named webhook,
\* webhook_events_filter, sync_mode, disable_safety_checker, go_fast,
\* enable_safety_checker, output_format, output_quality or request_id is never
\* among the extracted parameters.
C19_ExcludedNever ==
    exOut.done =>
        ParameterNames \cap
            {"webhook", "webhook_events_filter", "sync_mode", "disable_safety_checker",
             "go_fast", "enable_safety_checker", "output_format", "output_quality",
             "request_id"} = {}

\* a required output_format declared as an integer next to seed: only seed is extracted
C19_Witness ==
    /\ exOut.done
    /\ Len(exIn.properties) = 2
    /\ exIn.properties[1].name = "output_format" /\ exIn.properties[1].prop.type = "integer"
    /\ exIn.required = <<"output_format">>
    /\ ParameterNames = {"seed"} /\ exOut.inputs = <<>>

\* how often a name occurs in the two extracted lists together
Occurrences(n) ==
    Cardinality({i \in 1..Len(exOut.parameters) : exOut.parameters[i].name = n})
    + Cardinality({i \in 1..Len(exOut.inputs) : exOut.inputs[i].name = n})

\* C21: after every extraction each declared property is in exactly one class:
\* its name occurs at most once in the inputs and parameters together (an
\* input entry is either of type image or of type text), it occurs in neither
\* exactly when it is one of the nine excluded names, and an extraction of a
\* schema that was extracted before yields the same two lists again.
C21_OneClass ==
    [][exOut'.done =>
        /\ \A n \in DeclaredNames :
                /\ Occurrences(n)' <= 1
                /\ Occurrences(n)' = 0 <=>
                        n \in {"webhook", "webhook_events_filter", "sync_mode",
                               "disable_safety_checker", "go_fast", "enable_safety_checker",
                               "output_format", "output_quality", "request_id"}
        /\ \A i \in 1..Len(exOut'.inputs) : exOut'.inputs[i].type \in {"image", "text"}
        /\ exOut.done =>
                exOut'.parameters = exOut.parameters /\ exOut'.inputs = exOut.inputs]_vars

\* a schema with an image input, an excluded property and a parameter, extracted twice
C21_Witness ==
    /\ exOut.runs = 2
    /\ DeclaredNames = {"image_url", "go_fast", "seed"}
    /\ ImageInputNames = {"image_url"} /\ ParameterNames = {"seed"}
    /\ Len(exOut.inputs) = 1 /\ Len(exOut.parameters) = 1

\* C20 (as claimed): every property whose name is or contains "image", letter
\* case aside, is extracted as an image input and not as a parameter.
C20_Claim ==
    exOut.done =>
        \A n \in DeclaredNames :
            Includes(toLowerCase(n), "image") =>
                n \in ImageInputNames /\ n \notin ParameterNames

DeclaredOrder == [i \in 1..Len(exIn.properties) |-> exIn.properties[i].name]
ParameterOrder == [i \in 1..Len(exOut.parameters) |-> exOut.parameters[i].name]
InputOrder == [i \in 1..Len(exOut.inputs) |-> exOut.inputs[i].name]

\* C22: in the extracted parameters every parameter of the priority set comes
\* before every parameter outside it, and two parameters of the same group are
\* in alphabetical order of their names, whatever the order of the declarations.
C22_ParameterOrder ==
    exOut.done =>
        \A i, j \in 1..Len(exOut.parameters) :
            i < j =>
                LET a == exOut.parameters[i].name
                    b == exOut.parameters[j].name
                IN  /\ b \in PRIORITY_PARAMS => a \in PRIORITY_PARAMS
                    /\ (a \in PRIORITY_PARAMS <=> b \in PRIORITY_PARAMS)
                            => localeCompare(a, b) < 0

\* a non-priority name declared first and alphabetically first ends up last
C22_Witness ==
    /\ exOut.done
    /\ DeclaredOrder = <<"aspect_ratio", "width", "height">>
    /\ ParameterOrder = <<"height", "width", "aspect_ratio">>

\* C23 (as claimed): a schema declaring exactly width, seed and height yields
\* the parameter order seed, height, width.
C23_Original ==
    (exOut.done /\ Len(exIn.properties) = 3 /\ DeclaredNames = {"width", "seed", "height"})
        => ParameterOrder = <<"seed", "height", "width">>

\* C23 (amended): width and height are in the priority set as well as seed, so
\* a schema declaring exactly width, seed and height, in any order, yields the
\* alphabetical order height, seed, width.
C23_Amended ==
    (exOut.done /\ Len(exIn.properties) = 3 /\ DeclaredNames = {"width", "seed", "height"})
        => ParameterOrder = <<"height", "seed", "width">>

C23_Witness ==
    /\ exOut.done
    /\ DeclaredOrder = <<"width", "seed", "height">>
    /\ ParameterOrder = <<"height", "seed", "width">>

\* C24: in the extracted inputs every required input comes before every
\* optional one, among inputs of the same requiredness every image input comes
\* before every text input, and inputs of the same requiredness and type are in
\* alphabetical order of their names, whatever the order of the declarations;
\* an optional text, a required image and a required text come out as
\* required image, required text, optional text.
C24_InputOrder ==
    exOut.done =>
        /\ \A i, j \in 1..Len(exOut.inputs) :
              i < j =>
                  LET a == exOut.inputs[i]
                      b == exOut.inputs[j]
                  IN  /\ b.required => a.required
                      /\ (a.required = b.required /\ b.type = "image") => a.type = "image"
                      /\ (a.required = b.required /\ a.type = b.type)
                              => localeCompare(a.name, b.name) < 0
        /\ (/\ Len(exIn.properties) = 3
            /\ DeclaredNames = {"prompt", "image_url", "negative_prompt"}
            /\ SeqToSet(exIn.required) = {"image_url", "negative_prompt"})
                => InputOrder = <<"image_url", "negative_prompt", "prompt">>

\* the optional text is declared first and the required image last
C24_Witness ==
    /\ exOut.done
    /\ DeclaredOrder = <<"negative_prompt", "prompt", "image_url">>
    /\ exIn.required = <<"negative_prompt", "image_url">>
    /\ InputOrder = <<"image_url", "negative_prompt", "prompt">>
    /\ exOut.inputs[3].required = FALSE

\* the declaration of the property named n, and the parameter extracted for it
DeclarationOf(n) ==
    exIn.properties[CHOOSE i \in 1..Len(exIn.properties) : exIn.properties[i].name = n].prop
ParameterOf(n) ==
    exOut.parameters[CHOOSE i \in 1..Len(exOut.parameters) : exOut.parameters[i].name = n]

\* the definitions that the references of a composition resolve to, in encounter order
ResolvedRefs(allOf) ==
    SelectSeq([i \in 1..Len(allOf) |-> resolveRef(allOf[i].ref, SchemaComponents)],
              LAMBDA r : r.found)
Least(k) == CHOOSE i \in k : \A j \in k : i <= j
FirstResolvedType(rs) ==
    LET k == {i \in 1..Len(rs) : rs[i].type \in {"integer", "number", "boolean"}}
    IN  IF k = {} THEN "string" ELSE rs[Least(k)].type
FirstResolvedEnum(rs) ==
    LET k == {i \in 1..Len(rs) : rs[i].enum.has}
    IN  IF k = {} THEN NoEnum ELSE rs[Least(k)].enum
FirstResolvedDefault(rs) ==
    LET k == {i \in 1..Len(rs) : rs[i].default # Null}
    IN  IF k = {} THEN Null ELSE rs[Least(k)].default
FirstResolvedDescription(rs) ==
    LET k == {i \in 1..Len(rs) : Truthy(rs[i].description)}
    IN  IF k = {} THEN Null ELSE rs[Least(k)].description

\* a property that declares nothing itself and composes references only
ComposedOfReferences(prop) ==
    /\ prop.type = Null /\ ~prop.enum.has /\ prop.default = Null /\ ~Truthy(prop.description)
    /\ Len(prop.allOf) > 0
    /\ \A i \in 1..Len(prop.allOf) : Truthy(prop.allOf[i].ref)

\* C25 (as claimed): the parameter of a property composed of references takes
\* its type, its enum, its default and its description each from the first
\* reference, in encounter order, that resolves and supplies it; a later
\* reference overrides none of them.
C25_Claim ==
    (exOut.done /\ exIn.hasComponents) =>
        \A n \in DeclaredNames \cap ParameterNames :
            ComposedOfReferences(DeclarationOf(n)) =>
                LET rs == ResolvedRefs(DeclarationOf(n).allOf) IN
                /\ ParameterOf(n).type = FirstResolvedType(rs)
                /\ ParameterOf(n).enum = FirstResolvedEnum(rs)
                /\ ParameterOf(n).default = FirstResolvedDefault(rs)
                /\ ParameterOf(n).description = FirstResolvedDescription(rs)

\* C26: a parameter of a property that declares an enum itself carries that
\* enum, whatever enum the composed references resolve to; a parameter carries
\* another enum only when its property declares none.
C26_DirectEnumFirst ==
    exOut.done =>
        \A n \in DeclaredNames \cap ParameterNames :
            /\ DeclarationOf(n).enum.has => ParameterOf(n).enum = DeclarationOf(n).enum
            /\ ParameterOf(n).enum # DeclarationOf(n).enum => ~DeclarationOf(n).enum.has

\* a property with a direct enum whose composition resolves to the enum of AspectRatio
C26_Witness ==
    /\ exOut.done /\ exIn.hasComponents
    /\ "aspect_ratio" \in DeclaredNames \cap ParameterNames
    /\ DeclarationOf("aspect_ratio").enum = Enum(<<"direct">>)
    /\ FirstResolvedEnum(ResolvedRefs(SelectSeq(DeclarationOf("aspect_ratio").allOf,
                                                LAMBDA it : Truthy(it.ref)))).has
    /\ ParameterOf("aspect_ratio").enum = Enum(<<"direct">>)

(***************************************************************************)
(* Properties of generation, continued (SpecGen)                           *)
(***************************************************************************)
\* C27: when the SDK call returns, the adapter decides in this order: without
\* a candidate the response is the error "No response from AI model"; with a
\* candidate that has no part it is an error; otherwise, with an inline image
\* payload in any part, before or after a text part, it is a success carrying
\* that image; otherwise, with a text part, it is the error "Model returned
\* text instead of image"; otherwise the error "No image in response".  Every
\* one of these errors has status 500, and the request has sent one call.
C27_GeminiOrder ==
    [][\A o \in GeminiReplies :
        (o.kind = "ok" /\ G_Reply(o)) =>
            LET parts == IF Len(o.candidates) = 0 THEN <<>> ELSE o.candidates[1].parts
                images == {i \in 1..Len(parts) : parts[i].data # Null /\ parts[i].data # ""}
                texts == {i \in 1..Len(parts) : parts[i].text # Null /\ parts[i].text # ""}
            IN  /\ gPc' = "done" /\ Len(gCalls') = 1
                /\ gResp'.success <=> images # {}
                /\ ~gResp'.success => gResp'.status = 500
                /\ IF Len(o.candidates) = 0
                   THEN gResp'.error = "No response from AI model"
                   ELSE IF Len(parts) = 0 THEN TRUE
                   ELSE IF images # {}
                   THEN \E i \in images :
                            /\ StartsWith(gResp'.image, "data:")
                            /\ EndsWith(gResp'.image, ";base64," \o parts[i].data)
                   ELSE IF texts # {}
                   THEN StartsWith(gResp'.error, "Model returned text instead of image")
                   ELSE gResp'.error = "No image in response"]_vars

\* the reply whose text part precedes its image part has been answered with the image
C27_Witness ==
    /\ gPc = "done" /\ gReq.tag = Null
    /\ Len(gCalls) = 1 /\ gCalls[1].kind = "generateContent" /\ gCalls[1].reply = "ok"
    /\ gResp.success /\ gResp.image = "data:image/png;base64,BBBB"

MediaCalls == {i \in 1..Len(gCalls) : gCalls[i].kind = "media"}

\* C30: once a replicate job is seen succeeded, an absent output or an empty
\* list ends the request as a failure with no media fetch; otherwise exactly
\* one media fetch is made, for the output itself when it is a single value
\* and for the first element when it is a list, whatever the later elements
\* are, and a video URL in the response is that URL.
C30_FirstOutput ==
    (gReq.tag = "replicate" /\ gAd.status = "succeeded" /\ gPc \in {"r_media", "done"}) =>
        IF gAd.output.kind = "none" \/ Len(gAd.output.urls) = 0
        THEN gPc = "done" /\ ~gResp.success /\ gResp.status = 500 /\ MediaCalls = {}
        ELSE /\ gAd.mediaUrl = gAd.output.urls[1]
             /\ Cardinality(MediaCalls) = 1
             /\ (gPc = "done" /\ gResp.success /\ gResp.videoUrl # Null)
                    => gResp.videoUrl = gAd.output.urls[1]

\* a list of two URLs: the first, a video, was fetched and returned
C30_Witness ==
    /\ gReq.tag = "replicate" /\ gAd.status = "succeeded" /\ gPc = "done"
    /\ gAd.output.kind = "list" /\ Len(gAd.output.urls) = 2
    /\ gAd.output.urls[2] # gAd.output.urls[1]
    /\ gAd.mediaUrl = gAd.output.urls[1]
    /\ gResp.success /\ gResp.contentType = "video"

(***************************************************************************)
(* Properties of the schema lookup, continued (Spec)                       *)
(***************************************************************************)
\* a document without usable input schema: no schema document, no input
\* schema, or an input schema without properties
NoUsableSchema(provider, doc) ==
    IF provider = "replicate"
    THEN ~doc.openapi \/ doc.input # "object" \/ ~doc.schema.hasProperties
    ELSE \/ ~doc.openapi
         \/ \A i \in 1..Len(doc.paths) :
                \/ doc.paths[i].kind = "none"
                \/ doc.paths[i].kind = "ref" /\ ~doc.paths[i].resolves
                \/ ~doc.paths[i].schema.hasProperties

EmptySuccess(resp) ==
    /\ resp.status = 200 /\ resp.success
    /\ resp.parameters = <<>> /\ resp.inputs = <<>>

\* C28: for replicate and for fal, when the discovery endpoint answers with a
\* document that has no usable input schema, the lookup answers 200 with
\* success, no parameters and no inputs.
C28_UnusableDocument ==
    [][\A l \in LookupIds : \A o \in FetchOutcomes(lk[l].provider) :
            (/\ o.kind = "ok"
             /\ NoUsableSchema(lk[l].provider, o.doc)
             /\ GET_FetchReturn(l, o)) => EmptySuccess(lkResp'[l])]_vars

\* a replicate lookup was answered from a fetched document and returned nothing
C28_Witness ==
    \E l \in LookupIds :
        /\ lk[l].pc = "done" /\ lk[l].provider = "replicate" /\ lk[l].fetches = 1
        /\ EmptySuccess(lkResp[l]) /\ ~lkResp[l].cached
        /\ schemaCache[lk[l].key].present /\ schemaCache[lk[l].key].parameters = <<>>

\* C29 (as claimed): for replicate and for fal, when the schema endpoint
\* cannot be reached or answers with a non-2xx status, the lookup answers 200
\* with success, no parameters and no inputs.
C29_Claim ==
    [][\A l \in LookupIds : \A o \in FetchOutcomes(lk[l].provider) :
            (o.kind \in {"throw", "http"} /\ GET_FetchReturn(l, o))
                => EmptySuccess(lkResp'[l])]_vars

\* C32: a lookup whose provider parameter is missing or is neither replicate
\* nor fal is answered 400 with success false in the step it arrives, whatever
\* the cache holds; the cache stays as it is and no fetch is started.
C32_InvalidProvider ==
    [][\A l \in LookupIds :
            (Begins(l) /\ lk'[l].provider \notin {"replicate", "fal"}) =>
                /\ lkResp'[l].status = 400 /\ ~lkResp'[l].success
                /\ schemaCache' = schemaCache
                /\ lk'[l].pc = "done" /\ lk'[l].fetches = 0]_vars

\* a lookup for provider gemini was answered 400 while the cache held an entry
C32_Witness ==
    \E l \in LookupIds :
        /\ lk[l].pc = "done" /\ lk[l].provider = "gemini"
        /\ lkResp[l].status = 400 /\ lk[l].fetches = 0
        /\ \E k \in CacheKeys : schemaCache[k].present

\* C35: a lookup that is answered with an error (400, 401 or 500) leaves the
\* whole cache as it was; the cache changes only in a step in which a lookup
\* is answered 200 with cached false, and then only the entry under that
\* lookup's own provider and model id changes.
C35_CacheFrame ==
    [][/\ \A l \in LookupIds :
            (lkResp'[l] # lkResp[l] /\ lkResp'[l].status \in {400, 401, 500})
                => schemaCache' = schemaCache
       /\ schemaCache' # schemaCache =>
            \E l \in LookupIds :
                /\ lkResp'[l] # lkResp[l] \/ lk'[l] # lk[l]
                /\ lkResp'[l].status = 200 /\ ~lkResp'[l].cached
                /\ lk[l].key = lk[l].provider \o ":o/m"
                /\ \A k \in CacheKeys : k # lk[l].key => schemaCache'[k] = schemaCache[k]]_vars

\* a fetch failed with 500 while the cache held another lookup's entry, which is still there
C35_Witness ==
    \E l, m \in LookupIds :
        /\ lk[l].pc = "done" /\ lkResp[l].status = 500 /\ lk[l].fetches = 1
        /\ ~schemaCache[lk[l].key].present
        /\ lk[m].pc = "done" /\ lkResp[m].status = 200 /\ ~lkResp[m].cached
        /\ schemaCache[lk[m].key].present

(***************************************************************************)
(* Properties of the heuristic payload and of dispatch (SpecGen)           *)
(***************************************************************************)
\* what the claim asks of a payload built on the heuristic path from the
\* InputMapper's result paramMap
PlacedAsMapped(payload, input, paramMap, imageDefault) ==
    /\ \A i \in 1..Len(input.parameters) :
          LET key == input.parameters[i][1]
              mappedKey == MapOr(paramMap, key, key)
          IN  mappedKey # key =>
                /\ mappedKey \in DOMAIN payload
                /\ payload[mappedKey] = input.parameters[i][2]
                /\ key \notin DOMAIN payload
    /\ input.prompt # "" =>
          /\ MapOr(paramMap, "prompt", "prompt") \in DOMAIN payload
          /\ payload[MapOr(paramMap, "prompt", "prompt")] = input.prompt
    /\ Len(input.images) > 0 =>
          /\ MapOr(paramMap, "image", imageDefault) \in DOMAIN payload
          /\ payload[MapOr(paramMap, "image", imageDefault)] = input.images[1]

\* C34: on the heuristic path (no dynamic inputs) a caller parameter whose
\* generic name the InputMapper maps to another field name is in the outgoing
\* payload under the mapped name and not under its generic key; the prompt and
\* the first image are under their mapped names, or under the provider's
\* default names ("prompt"; "image" for replicate, "image_url" for fal).
C34_Claim ==
    [][/\ \A o \in ModelInfoReplies :
            (/\ gPc = "r_model" /\ o.kind = "ok" /\ gPc' = "r_submit"
             /\ ~(gIn.dynamicInputs.given /\ DOMAIN gIn.dynamicInputs.map # {})
             /\ R_ModelReply(o))
                => PlacedAsMapped(gAd'.payload, gIn, getInputMappingFromSchema(o.schema), "image")
       /\ \A o \in FalSchemaReplies :
            (gPc = "f_schema" /\ gPc' = "f_submit" /\ F_SchemaReply(o))
                => PlacedAsMapped(gAd'.payload, gIn, getFalInputMapping(o), "image_url")]_vars

\* the adapter a provider call belongs to; the submission and the media fetch
\* are made by both HTTP adapters and are told apart by the first call
AdapterOfFirstCall ==
    CASE gCalls[1].kind = "model_info" -> "replicate"
      [] gCalls[1].kind = "generateContent" -> "gemini"
      [] OTHER -> "fal"
CallKindsOf(adapter) ==
    CASE adapter = "replicate" -> {"model_info", "submit", "poll", "media"}
      [] adapter = "fal" -> {"schema", "submit", "media"}
      [] OTHER -> {"generateContent"}
\* the adapter the request's declared provider tag names
DeclaredAdapter ==
    IF gReq.tag = Null THEN "gemini"
    ELSE IF gReq.tag \in {"gemini", "replicate", "fal"} THEN gReq.tag
    ELSE "none"

\* C36: every provider call of a generation request is made by one adapter,
\* the one of the request's declared provider tag (the direct-SDK adapter when
\* no model is selected); a request whose tag names no known provider causes
\* no provider call at all.
C36_Claim ==
    gCalls # <<>> =>
        /\ AdapterOfFirstCall = DeclaredAdapter
        /\ \A i \in 1..Len(gCalls) : gCalls[i].kind \in CallKindsOf(AdapterOfFirstCall)

PollingRequest == gPc \in {"r_model", "r_submit", "r_sleep", "r_poll", "r_media"}
FailedFetch == LastCall.kind = "poll" /\ LastCall.reply \in {"throw", "http_error"}

\* C33: provided every provider call returns and every sleep ends, a request
\* handed to the polling adapter is eventually answered; once polling has
\* started, each status fetch was preceded by a sleep of at least the poll
\* interval and was begun while at most 5 minutes had elapsed, so that there
\* are at most maxWaitTime / pollInterval + 1 status fetches; and the loop is
\* left only on a terminal status, a failed status fetch or the timeout.
C33_Terminates ==
    /\ [](PollingStarted =>
            /\ gAd.polls * 1000 <= Elapsed
            /\ (gPc = "r_sleep" => Elapsed <= 5 * 60 * 1000)
            /\ gAd.polls <= (5 * 60 * 1000) \div 1000 + 1)
    /\ []((gPc \in {"r_media", "done"} /\ PollingStarted) =>
            \/ gAd.status \in {"succeeded", "failed", "canceled"}
            \/ FailedFetch
            \/ IsTimeout(gResp))
    /\ (PollingRequest ~> gPc = "done")

\* the request was answered with the timeout error after the model's bound on
\* status fetches was used up and the last sleep ended late
C33_Witness ==
    /\ gPc = "done" /\ IsTimeout(gResp)
    /\ gAd.polls > MaxPolls

(***************************************************************************)
(* Properties of the media round trip (SpecCodec)                          *)
(***************************************************************************)
\* C31 (as claimed): for every content type the media fetch reports, the
\* buffer the save route decodes from the data URI an adapter built is the
\* buffer the adapter fetched, byte for byte.
C31_Claim == rtOut.done => rtOut.bytes = rtIn.bytes

====
